---- MODULE Spec2Model ----
(***************************************************************************)
(* Model of gofi's osxHandle (osx.go): the public Handle facade that       *)
(* composes a bpfHandle (capture device) and an osxInterface (channel      *)
(* controller) behind four locks, with a FIFO of decoded packets.          *)
(*                                                                         *)
(* Every goroutine calling into the handle is a thread of the model; each  *)
(* handler is cut into steps at its lock acquisitions and at the blocking  *)
(* device calls, so that every interleaving the Go scheduler can produce   *)
(* is a behaviour of the model.                                            *)
(***************************************************************************)
EXTENDS Integers, Sequences, FiniteSets, TLC

\* ------------------------------------------------------------------ bounds
NumThreads == 3      \* goroutines calling into the handle
MaxCalls == 3        \* Handle method invocations in one behaviour
MaxPackets == 2      \* capture records the device delivers in one behaviour
MaxBatch == 2        \* records in one device read

Threads == 1..NumThreads
None == 0

ChannelOps == {"SupportedChannels", "Channel", "SetChannel"}
Ops == ChannelOps \cup {"Receive", "Send", "Close"}

VARIABLES
    pc,               \* position of each goroutine inside its handler
    op,               \* the Handle method each goroutine is in ("none" when idle)
    bpfHandle,        \* osxHandle.bpfHandle: "bpf" or "nil"
    osxInterface,     \* osxHandle.osxInterface: "iface" or "nil"
    bpfHandleLock,    \* sync.RWMutex: [writer |-> goroutine or None, readers |-> set]
    osxInterfaceLock, \* sync.Mutex: holder or None
    receiveLock,      \* sync.Mutex: holder or None
    sendLock,         \* sync.Mutex: holder or None
    readBuffer,       \* readBufferFirst..readBufferLast, as a sequence of packets
    bpfCloseCount,    \* number of unix.Close calls made on bpfHandle.fd
    ifaceCloseCount,  \* number of unix.Close calls made on osxInterface.fd
    nextPacket,       \* number of capture records the device has delivered
    lastRead,         \* the error of the most recent bpfHandle.ReceiveMany call
    delivered,        \* packets returned by Receive so far, in return order
    timedOut,         \* a device read of the goroutine's current call timed out
    afterClose,       \* the current call started after a Close had returned
    afterErrClosed,   \* the current call started after some ErrClosed return
    last,             \* the most recent return: the call's op, result and flags
    closeReturned,    \* some Close call has returned
    errClosedReturned,\* some call has returned ErrClosed
    closeCalls,       \* number of Close invocations (0, 1, 2 = many)
    calls,            \* number of invocations so far
    panicked,         \* a goroutine panicked: the process is gone
    intBits,          \* the width of Go's int in the build: 32 or 64
    dataLinkType,     \* bpfHandle.dataLinkType
    records,          \* the capture records the read buffer was laid out from
    parseData,        \* parsePackets: the argument data
    parseI,           \* parsePackets: the loop variable i
    parseRes,         \* parsePackets: res, the packets appended so far
    parseErr,         \* parsePackets: "idle", "loop", or the error returned ("nil" for none)
    taken,            \* parsePackets: offset and payload range of each record
    codecStage,       \* the radiotap codec: how far the call sequence has come
    codecFrame,       \* the frame f given to encodeRadiotapPacket
    codecRate,        \* the data rate r given to encodeRadiotapPacket
    codecIn,          \* the argument data of parseRadiotapPacket
    codecOut,         \* the result of parseRadiotapPacket
    bpfSendCall,      \* one call of bpfHandle.Send: frame, bytes written, result
    setChannelCall,   \* one call of osxInterface.SetChannel: list, argument, result
    widthCall,        \* one conversion between megahertz and ChannelWidth
    newHandleCall,    \* one call of NewHandle, and the session that follows it
    receiveManyCall   \* one call of bpfHandle.ReceiveMany: the raw reads, the result

locks == <<bpfHandleLock, osxInterfaceLock, receiveLock, sendLock>>
device == <<bpfHandle, osxInterface, bpfCloseCount, ifaceCloseCount>>
queue == <<readBuffer, nextPacket, lastRead, delivered>>
call == <<op, timedOut, afterClose, afterErrClosed>>
results == <<last, closeReturned, errClosedReturned>>
counts == <<closeCalls, calls>>
handle == <<pc, locks, device, queue, call, results, counts, panicked>>
demux == <<intBits, dataLinkType, records, parseData, parseI, parseRes, parseErr, taken>>
codec == <<codecStage, codecFrame, codecRate, codecIn, codecOut>>
units == <<bpfSendCall, setChannelCall, widthCall, newHandleCall, receiveManyCall>>
vars == <<handle, demux, codec, units>>

Min(a, b) == IF a < b THEN a ELSE b

\* The capture descriptor bpfHandle.fd is open until unix.Close is called on it.
fdOpen == bpfCloseCount = 0

\* ------------------------------------------------------------- sync.Mutex
\* sync.Mutex.Lock succeeds only on a free mutex.
MutexFree(m) == m = None

\* ----------------------------------------------------------- sync.RWMutex
\* RLock blocks while a writer holds the lock or has called Lock and waits.
CanRLock == bpfHandleLock.writer = None

\* Lock first excludes other writers (and, from then on, new readers) ...
CanRequestLock == bpfHandleLock.writer = None

\* ... and then waits for the readers that are inside to leave.
CanLock == bpfHandleLock.readers = {}

RLocked(t) == [bpfHandleLock EXCEPT !.readers = @ \cup {t}]
RUnlocked(t) == [bpfHandleLock EXCEPT !.readers = @ \ {t}]

\* ------------------------------------------------------- calls and returns
\* Goroutine t goes on to position p of its handler.
Goto(t, p) ==
    /\ pc' = [pc EXCEPT ![t] = p]
    /\ UNCHANGED <<call, results, panicked>>

\* The handler of goroutine t returns r to its caller.
Return(t, r) ==
    /\ pc' = [pc EXCEPT ![t] = "idle"]
    /\ last' = [op |-> op[t], ret |-> r, timedOut |-> timedOut[t],
                afterClose |-> afterClose[t], afterErrClosed |-> afterErrClosed[t]]
    /\ errClosedReturned' = (errClosedReturned \/ r = "ErrClosed")
    /\ closeReturned' = (closeReturned \/ op[t] = "Close")
    /\ op' = [op EXCEPT ![t] = "none"]
    /\ timedOut' = [timedOut EXCEPT ![t] = FALSE]
    /\ afterClose' = [afterClose EXCEPT ![t] = FALSE]
    /\ afterErrClosed' = [afterErrClosed EXCEPT ![t] = FALSE]
    /\ UNCHANGED panicked

\* A nil dereference: the goroutine panics and the process dies.
Panic(t) ==
    /\ panicked' = TRUE
    /\ pc' = [pc EXCEPT ![t] = "panic"]
    /\ UNCHANGED <<call, results>>

FirstPc(o) ==
    CASE o \in ChannelOps -> "ch_lock"
      [] o = "Receive" -> "recv_lock"
      [] o = "Send" -> "send_lock"
      [] o = "Close" -> "close_lock"

\* A goroutine invokes a Handle method. Idle goroutines are interchangeable,
\* so the call is made by the lowest-numbered idle one.
Call(t, o) ==
    /\ ~panicked
    /\ pc[t] = "idle"
    /\ \A u \in Threads : u < t => pc[u] # "idle"
    /\ calls < MaxCalls
    /\ calls' = calls + 1
    /\ closeCalls' = IF o = "Close" THEN Min(closeCalls + 1, 2) ELSE closeCalls
    /\ op' = [op EXCEPT ![t] = o]
    /\ pc' = [pc EXCEPT ![t] = FirstPc(o)]
    /\ afterClose' = [afterClose EXCEPT ![t] = closeReturned]
    /\ afterErrClosed' = [afterErrClosed EXCEPT ![t] = errClosedReturned]
    /\ UNCHANGED <<locks, device, queue, timedOut, results, panicked, demux, codec, units>>

\* ------------------------------------------- SupportedChannels/Channel/SetChannel
\* h.osxInterfaceLock.Lock(), then the nil check: a released controller
\* answers at once (ErrClosed, Channel{} or []Channel{}) and the deferred
\* Unlock runs; otherwise the call is delegated to the controller.
ChLock(t) ==
    /\ ~panicked
    /\ pc[t] = "ch_lock"
    /\ MutexFree(osxInterfaceLock)
    /\ IF osxInterface = "nil"
       THEN /\ Return(t, IF op[t] = "SetChannel" THEN "ErrClosed" ELSE "zero")
            /\ UNCHANGED osxInterfaceLock
       ELSE /\ osxInterfaceLock' = t
            /\ Goto(t, "ch_call")
    /\ UNCHANGED <<bpfHandleLock, receiveLock, sendLock, device, queue, counts, demux, codec, units>>

\* The controller call ends (SetChannel may fail: unknown channel, ioctl
\* error) and the deferred h.osxInterfaceLock.Unlock() runs.
ChCall(t) ==
    /\ ~panicked
    /\ pc[t] = "ch_call"
    /\ \E r \in (IF op[t] = "SetChannel" THEN {"nil", "error"} ELSE {"value"}) :
          Return(t, r)
    /\ osxInterfaceLock' = None
    /\ UNCHANGED <<bpfHandleLock, receiveLock, sendLock, device, queue, counts, demux, codec, units>>

\* ----------------------------------------------------------------- Receive
\* RecvPop that unlinks the tail node instead of the head.
RecvPopLast(t, buffer) ==
    IF buffer = <<>>
    THEN /\ Panic(t)
         /\ UNCHANGED <<receiveLock, readBuffer, delivered>>
    ELSE /\ delivered' = Append(delivered, buffer[Len(buffer)])
         /\ readBuffer' = SubSeq(buffer, 1, Len(buffer) - 1)
         /\ Return(t, "nil")
         /\ receiveLock' = None

\* The tail of Receive: unlink the head node and return its packet. On an
\* empty list h.readBufferFirst.next dereferences nil.
RecvPop(t, buffer) ==
    IF buffer = <<>>
    THEN /\ Panic(t)
         /\ UNCHANGED <<receiveLock, readBuffer, delivered>>
    ELSE /\ delivered' = Append(delivered, Head(buffer))
         /\ readBuffer' = Tail(buffer)
         /\ Return(t, "nil")
         /\ receiveLock' = None

\* h.receiveLock.Lock() and the test of h.readBufferFirst == nil: a list that
\* holds packets is popped at once, an empty one sends Receive into
\* populateReadBuffer.
RecvLock(t) ==
    /\ ~panicked
    /\ pc[t] = "recv_lock"
    /\ MutexFree(receiveLock)
    /\ IF readBuffer = <<>>
       THEN /\ receiveLock' = t
            /\ Goto(t, "pop_rlock")
            /\ UNCHANGED <<readBuffer, delivered>>
       ELSE RecvPop(t, readBuffer)
    /\ UNCHANGED <<bpfHandleLock, osxInterfaceLock, sendLock, device, nextPacket, lastRead,
                   counts, demux, codec, units>>

\* PopulateRLock with Lock()/Unlock() in place of RLock()/RUnlock(): the device
\* read runs under the write side of the guard.
PopulateRLockExclusive(t) ==
    /\ ~panicked
    /\ pc[t] = "pop_rlock"
    /\ CanRequestLock
    /\ CanLock
    /\ IF bpfHandle = "nil"
       THEN /\ Return(t, "ErrClosed")
            /\ receiveLock' = None
            /\ UNCHANGED bpfHandleLock
       ELSE /\ bpfHandleLock' = [bpfHandleLock EXCEPT !.writer = t]
            /\ Goto(t, "reading")
            /\ UNCHANGED receiveLock
    /\ UNCHANGED <<osxInterfaceLock, sendLock, device, queue, counts, demux, codec, units>>

\* populateReadBuffer, top of the loop: h.bpfHandleLock.RLock() and the nil
\* check. A nil bpfHandle gives RUnlock and ErrClosed, which Receive returns
\* (its deferred receiveLock.Unlock() runs); otherwise ReceiveMany starts.
PopulateRLock(t) ==
    /\ ~panicked
    /\ pc[t] = "pop_rlock"
    /\ CanRLock
    /\ IF bpfHandle = "nil"
       THEN /\ Return(t, "ErrClosed")
            /\ receiveLock' = None
            /\ UNCHANGED bpfHandleLock
       ELSE /\ bpfHandleLock' = RLocked(t)
            /\ Goto(t, "reading")
            /\ UNCHANGED receiveLock
    /\ UNCHANGED <<osxInterfaceLock, sendLock, device, queue, counts, demux, codec, units>>

\* What one bpfHandle.ReceiveMany call can return: a read timeout, a fatal
\* error (device down, another OS error, a record that does not parse), or
\* the records of the batch, which may be none for a read of 1..18 bytes.
ReadOutcomes ==
    {[err |-> "errBPFReadTimeout", n |-> 0], [err |-> "error", n |-> 0]}
    \cup {[err |-> "nil", n |-> k] : k \in 0..Min(MaxBatch, MaxPackets - nextPacket)}

\* PopulateBranch without the errBPFReadTimeout test: the timeout is returned
\* like any other error.
PopulateBranchReturnsTimeout(t, e, batch) ==
    /\ bpfHandleLock' = RUnlocked(t)
    /\ IF e = "nil"
       THEN RecvPop(t, readBuffer \o batch)
       ELSE /\ Return(t, e)
            /\ receiveLock' = None
            /\ UNCHANGED <<readBuffer, delivered>>

\* PopulateBranch with the continue taken before RUnlock: the loop goes round
\* with the read side of the guard still held.
PopulateBranchKeepsRLock(t, e, batch) ==
    CASE e = "errBPFReadTimeout" ->
           /\ pc' = [pc EXCEPT ![t] = "pop_rlock"]
           /\ timedOut' = [timedOut EXCEPT ![t] = TRUE]
           /\ UNCHANGED <<bpfHandleLock, receiveLock, readBuffer, delivered, op,
                          afterClose, afterErrClosed, results, panicked>>
      [] e = "nil" ->
           /\ bpfHandleLock' = RUnlocked(t)
           /\ RecvPop(t, readBuffer \o batch)
      [] OTHER ->
           /\ bpfHandleLock' = RUnlocked(t)
           /\ Return(t, e)
           /\ receiveLock' = None
           /\ UNCHANGED <<readBuffer, delivered>>

\* PopulateBranch that continues on every error, not only on the timeout.
PopulateBranchRetriesOnError(t, e, batch) ==
    /\ bpfHandleLock' = RUnlocked(t)
    /\ IF e = "nil"
       THEN RecvPop(t, readBuffer \o batch)
       ELSE /\ pc' = [pc EXCEPT ![t] = "pop_rlock"]
            /\ timedOut' = [timedOut EXCEPT ![t] = TRUE]
            /\ UNCHANGED <<receiveLock, readBuffer, delivered, op, afterClose,
                           afterErrClosed, results, panicked>>

\* populateReadBuffer after h.bpfHandle.ReceiveMany() has returned (packets,
\* err): RUnlock, then continue on errBPFReadTimeout, return any other
\* error (which Receive returns), else append the packets and return nil,
\* after which Receive pops the head.
PopulateBranch(t, e, batch) ==
    /\ bpfHandleLock' = RUnlocked(t)
    /\ CASE e = "errBPFReadTimeout" ->
              /\ pc' = [pc EXCEPT ![t] = "pop_rlock"]
              /\ timedOut' = [timedOut EXCEPT ![t] = TRUE]
              /\ UNCHANGED <<receiveLock, readBuffer, delivered, op, afterClose,
                             afterErrClosed, results, panicked>>
         [] e = "nil" ->
              RecvPop(t, readBuffer \o batch)
         [] OTHER ->
              /\ Return(t, e)
              /\ receiveLock' = None
              /\ UNCHANGED <<readBuffer, delivered>>

\* The device read of bpfHandle.ReceiveMany ends with one of its outcomes.
ReceiveMany(t) ==
    /\ ~panicked
    /\ pc[t] = "reading"
    /\ \E o \in ReadOutcomes :
          /\ nextPacket' = nextPacket + o.n
          /\ lastRead' = o.err
          /\ PopulateBranch(t, o.err, [i \in 1..o.n |-> nextPacket + i])
    /\ UNCHANGED <<osxInterfaceLock, sendLock, device, counts, demux, codec, units>>

\* -------------------------------------------------------------------- Send
\* SendLock without h.sendLock.Lock(): Send goes on without the send lock.
SendLockNoMutex(t) ==
    /\ ~panicked
    /\ pc[t] = "send_lock"
    /\ Goto(t, "send_rlock")
    /\ UNCHANGED <<locks, device, queue, counts, demux, codec, units>>

\* h.sendLock.Lock().
SendLock(t) ==
    /\ ~panicked
    /\ pc[t] = "send_lock"
    /\ MutexFree(sendLock)
    /\ sendLock' = t
    /\ Goto(t, "send_rlock")
    /\ UNCHANGED <<bpfHandleLock, osxInterfaceLock, receiveLock, device, queue, counts, demux, codec, units>>

\* SendRLock without the RLock: the nil check and the write run unguarded.
SendRLockNoGuard(t) ==
    /\ ~panicked
    /\ pc[t] = "send_rlock"
    /\ IF bpfHandle = "nil"
       THEN /\ Return(t, "ErrClosed")
            /\ sendLock' = None
       ELSE /\ Goto(t, "writing")
            /\ UNCHANGED sendLock
    /\ UNCHANGED <<bpfHandleLock, osxInterfaceLock, receiveLock, device, queue, counts, demux, codec, units>>

\* h.bpfHandleLock.RLock() and the nil check: a nil bpfHandle returns
\* ErrClosed (both deferred unlocks run); otherwise bpfHandle.Send starts.
SendRLock(t) ==
    /\ ~panicked
    /\ pc[t] = "send_rlock"
    /\ CanRLock
    /\ IF bpfHandle = "nil"
       THEN /\ Return(t, "ErrClosed")
            /\ sendLock' = None
            /\ UNCHANGED bpfHandleLock
       ELSE /\ bpfHandleLock' = RLocked(t)
            /\ Goto(t, "writing")
            /\ UNCHANGED sendLock
    /\ UNCHANGED <<osxInterfaceLock, receiveLock, device, queue, counts, demux, codec, units>>

\* The device write of bpfHandle.Send ends (nil, an OS error or a short
\* write) and the deferred RUnlock and sendLock.Unlock() run.
BpfSend(t) ==
    /\ ~panicked
    /\ pc[t] = "writing"
    /\ \E r \in {"nil", "error"} : Return(t, r)
    /\ bpfHandleLock' = RUnlocked(t)
    /\ sendLock' = None
    /\ UNCHANGED <<osxInterfaceLock, receiveLock, device, queue, counts, demux, codec, units>>

\* ------------------------------------------------------------------- Close
\* h.bpfHandleLock.Lock(), first half: the writer announces itself.
CloseRequestLock(t) ==
    /\ ~panicked
    /\ pc[t] = "close_lock"
    /\ CanRequestLock
    /\ bpfHandleLock' = [bpfHandleLock EXCEPT !.writer = t]
    /\ Goto(t, "close_wait")
    /\ UNCHANGED <<osxInterfaceLock, receiveLock, sendLock, device, queue, counts, demux, codec, units>>

\* CloseBpf that does not wait for the readers inside the guard to leave.
CloseBpfNoWait(t) ==
    /\ ~panicked
    /\ pc[t] = "close_wait"
    /\ IF bpfHandle = "nil"
       THEN /\ Panic(t)
            /\ UNCHANGED <<bpfHandle, bpfCloseCount, bpfHandleLock>>
       ELSE /\ bpfCloseCount' = bpfCloseCount + 1
            /\ bpfHandle' = "nil"
            /\ bpfHandleLock' = [bpfHandleLock EXCEPT !.writer = None]
            /\ Goto(t, "close_iflock")
    /\ UNCHANGED <<osxInterfaceLock, receiveLock, sendLock, osxInterface,
                   ifaceCloseCount, queue, counts, demux, codec, units>>

\* CloseBpf without h.bpfHandleLock.Unlock(): Close goes on to the controller
\* with the write side of the device guard still held.
CloseBpfKeepsGuard(t) ==
    /\ ~panicked
    /\ pc[t] = "close_wait"
    /\ CanLock
    /\ IF bpfHandle = "nil"
       THEN /\ Panic(t)
            /\ UNCHANGED <<bpfHandle, bpfCloseCount, bpfHandleLock>>
       ELSE /\ bpfCloseCount' = bpfCloseCount + 1
            /\ bpfHandle' = "nil"
            /\ bpfHandleLock' = [bpfHandleLock EXCEPT !.writer = t]
            /\ Goto(t, "close_iflock")
    /\ UNCHANGED <<osxInterfaceLock, receiveLock, sendLock, osxInterface,
                   ifaceCloseCount, queue, counts, demux, codec, units>>

\* h.bpfHandleLock.Lock(), second half (the readers have left), then
\* h.bpfHandle.Close(), which is unix.Close(b.fd) and dereferences b: on a
\* handle that is already closed b is nil and the goroutine panics, with the
\* lock held. Otherwise h.bpfHandle = nil and h.bpfHandleLock.Unlock().
CloseBpf(t) ==
    /\ ~panicked
    /\ pc[t] = "close_wait"
    /\ CanLock
    /\ IF bpfHandle = "nil"
       THEN /\ Panic(t)
            /\ UNCHANGED <<bpfHandle, bpfCloseCount, bpfHandleLock>>
       ELSE /\ bpfCloseCount' = bpfCloseCount + 1
            /\ bpfHandle' = "nil"
            /\ bpfHandleLock' = [bpfHandleLock EXCEPT !.writer = None]
            /\ Goto(t, "close_iflock")
    /\ UNCHANGED <<osxInterfaceLock, receiveLock, sendLock, osxInterface,
                   ifaceCloseCount, queue, counts, demux, codec, units>>

\* CloseInterface without h.osxInterface = nil.
CloseInterfaceKeepsPointer(t) ==
    /\ ~panicked
    /\ pc[t] = "close_iflock"
    /\ MutexFree(osxInterfaceLock)
    /\ ifaceCloseCount' = ifaceCloseCount + 1
    /\ Return(t, "returned")
    /\ UNCHANGED <<locks, bpfHandle, osxInterface, bpfCloseCount, queue, counts, demux, codec, units>>

\* h.osxInterfaceLock.Lock(), h.osxInterface.Close() (unix.Close(i.fd), a
\* nil dereference on a released controller), h.osxInterface = nil,
\* h.osxInterfaceLock.Unlock(), return.
CloseInterface(t) ==
    /\ ~panicked
    /\ pc[t] = "close_iflock"
    /\ MutexFree(osxInterfaceLock)
    /\ IF osxInterface = "nil"
       THEN /\ Panic(t)
            /\ UNCHANGED <<osxInterface, ifaceCloseCount>>
       ELSE /\ ifaceCloseCount' = ifaceCloseCount + 1
            /\ osxInterface' = "nil"
            /\ Return(t, "returned")
    /\ UNCHANGED <<locks, bpfHandle, bpfCloseCount, queue, counts, demux, codec, units>>

\* ============================================================ byte buffers
\* A Go []byte is a sequence of values in 0..255; Go index k is element k+1.
At(data, k) == data[k + 1]

\* data[from:to]
Slice(data, from, to) == SubSeq(data, from + 1, to)

\* binary.LittleEndian.Uint16(data[k:])
Uint16(data, k) == At(data, k) + 256 * At(data, k + 1)

\* Bit n (0 = least significant) of the byte b.
BitOf(b, n) == (b \div (2 ^ n)) % 2

\* Bit n of the little-endian word of which data[k:] holds the bytes.
WordBit(data, k, n) == BitOf(At(data, k + (n \div 8)), n % 8)

\* The byte taken as it is, without a sign.
Int8Unsigned(b) == b

\* int(int8(b))
Int8(b) == IF b >= 128 THEN b - 256 ELSE b

\* ------------------------------------------------------------------ CRC-32
\* A 32-bit word is the tuple of its four bytes, lowest first.
\* hash/crc32's IEEE polynomial in reflected form, 0xedb88320:
IEEEPoly == <<32, 131, 184, 237>>

AllOnes == <<255, 255, 255, 255>>

\* Bitwise exclusive or of two bytes.
XorByte(a, b) ==
    LET bit(k) == ((BitOf(a, k) + BitOf(b, k)) % 2) * (2 ^ k)
    IN  bit(0) + bit(1) + bit(2) + bit(3) + bit(4) + bit(5) + bit(6) + bit(7)

\* Bitwise exclusive or of two words.
Xor(v, w) ==
    <<XorByte(v[1], w[1]), XorByte(v[2], w[2]), XorByte(v[3], w[3]), XorByte(v[4], w[4])>>

\* c >> 1
ShiftRight(c) ==
    <<(c[1] \div 2) + 128 * (c[2] % 2), (c[2] \div 2) + 128 * (c[3] % 2),
      (c[3] \div 2) + 128 * (c[4] % 2), c[4] \div 2>>

\* One bit step of the reflected CRC: shift right, and xor with the
\* polynomial when the bit shifted out is set.
CrcShift(c) ==
    IF c[1] % 2 = 1 THEN Xor(ShiftRight(c), IEEEPoly) ELSE ShiftRight(c)

RECURSIVE CrcShifts(_, _)
CrcShifts(c, times) == IF times = 0 THEN c ELSE CrcShifts(CrcShift(c), times - 1)

Bytes == 0..255

\* a ^ b for all bytes a and b, computed once.
XorTable == [a \in Bytes |-> [b \in Bytes |-> XorByte(a, b)]]

\* hash/crc32's table for the polynomial: entry b is the register that 8 bit
\* steps make of the byte b.
IEEETable == [b \in Bytes |-> CrcShifts(<<b, 0, 0, 0>>, 8)]

\* The register after the byte b has been fed in:
\* crc = tab[byte(crc) ^ b] ^ (crc >> 8).
CrcByte(c, b) ==
    LET entry == IEEETable[XorTable[c[1]][b]]
    IN  <<XorTable[entry[1]][c[2]], XorTable[entry[2]][c[3]],
          XorTable[entry[3]][c[4]], entry[4]>>

RECURSIVE CrcUpdate(_, _)
\* The register after the bytes of data have been fed in, one by one.
CrcUpdate(c, data) ==
    IF data = <<>> \/ c \notin [1..4 -> Bytes]
    THEN c
    ELSE CrcUpdate(CrcByte(c, Head(data)), Tail(data))

\* crc32.ChecksumIEEE(data): the register starts as all ones and is
\* complemented at the end.
ChecksumIEEE(data) == Xor(CrcUpdate(AllOnes, data), AllOnes)

\* binary.LittleEndian.PutUint32: the four bytes of w, lowest first.
PutUint32(w) == <<w[1], w[2], w[3], w[4]>>

\* A frame with its checksum appended, as both decoders build it.
WithChecksum(frame) == frame \o PutUint32(ChecksumIEEE(frame))

\* ================================================================ radiotap
\* Alignment and size of the radiotap data fields, by bit number (from 0).
radiotapFields ==
    << [Alignment |-> 8, Size |-> 8], [Alignment |-> 1, Size |-> 1],
       [Alignment |-> 1, Size |-> 1], [Alignment |-> 2, Size |-> 4],
       [Alignment |-> 2, Size |-> 2], [Alignment |-> 1, Size |-> 1],
       [Alignment |-> 1, Size |-> 1], [Alignment |-> 2, Size |-> 2],
       [Alignment |-> 2, Size |-> 2], [Alignment |-> 2, Size |-> 2],
       [Alignment |-> 1, Size |-> 1], [Alignment |-> 1, Size |-> 1],
       [Alignment |-> 1, Size |-> 1], [Alignment |-> 1, Size |-> 1] >>

radiotapFlags == 1
radiotapRate == 2
radiotapChannel == 3
radiotapSignalPower == 5
radiotapNoisePower == 6
radiotapTransmitPower == 10

radiotapFlagHasFCS == 16
radiotapFlagHasPadding == 32

\* flags & mask, for a mask of one bit.
HasFlag(flags, mask) == (flags \div mask) % 2 = 1

\* var radioInfo RadioInfo
ZeroRadioInfo ==
    [Frequency |-> 0, NoisePower |-> 0, SignalPower |-> 0, TransmitPower |-> 0,
     Rate |-> 0]

\* What a decoder returns: (nil, err) or (&RadioPacket{frame, info}, nil). A
\* run-time bounds failure is the result "panic". Nil is the nil pointer.
Nil == [nil |-> TRUE]
Failure(e) == [packet |-> Nil, err |-> e]
Success(frame, info) == [packet |-> [Frame |-> frame, RadioInfo |-> info], err |-> "nil"]

\* FieldStep without the alignment of fieldOffset.
FieldStepUnaligned(dataFields, i, st) ==
    LET info == radiotapFields[i + 1]
        fieldOffset == st.fieldOffset
        old == st.radioInfo
    IN  IF fieldOffset + info.Size > Len(dataFields)
        THEN [st EXCEPT !.err = "ErrBufferUnderflow"]
        ELSE [err |-> "nil",
              fieldOffset |-> fieldOffset + info.Size,
              flags |-> IF i = radiotapFlags THEN At(dataFields, fieldOffset)
                        ELSE st.flags,
              radioInfo |->
                  CASE i = radiotapRate ->
                         [old EXCEPT !.Rate = At(dataFields, fieldOffset)]
                    [] i = radiotapChannel ->
                         [old EXCEPT !.Frequency = Uint16(dataFields, fieldOffset)]
                    [] i = radiotapNoisePower ->
                         [old EXCEPT !.NoisePower = Int8(At(dataFields, fieldOffset))]
                    [] i = radiotapSignalPower ->
                         [old EXCEPT !.SignalPower = Int8(At(dataFields, fieldOffset))]
                    [] i = radiotapTransmitPower ->
                         [old EXCEPT !.TransmitPower = Int8(At(dataFields, fieldOffset))]
                    [] OTHER -> old]

\* The body of the loop over radiotapFields for field i, which is present:
\* align fieldOffset, check that the field fits, store the field.
FieldStep(dataFields, i, st) ==
    LET info == radiotapFields[i + 1]
        rest == st.fieldOffset % info.Alignment
        fieldOffset == IF rest # 0 THEN st.fieldOffset + info.Alignment - rest
                       ELSE st.fieldOffset
        need == IF i = radiotapChannel THEN 2 ELSE 1
        old == st.radioInfo
    IN  IF fieldOffset + info.Size > Len(dataFields)
        THEN [st EXCEPT !.err = "ErrBufferUnderflow"]
        ELSE IF fieldOffset + need > Len(dataFields)
        THEN [st EXCEPT !.err = "panic"]
        ELSE [err |-> "nil",
              fieldOffset |-> fieldOffset + info.Size,
              flags |-> IF i = radiotapFlags THEN At(dataFields, fieldOffset)
                        ELSE st.flags,
              radioInfo |->
                  CASE i = radiotapRate ->
                         [old EXCEPT !.Rate = At(dataFields, fieldOffset)]
                    [] i = radiotapChannel ->
                         [old EXCEPT !.Frequency = Uint16(dataFields, fieldOffset)]
                    [] i = radiotapNoisePower ->
                         [old EXCEPT !.NoisePower = Int8(At(dataFields, fieldOffset))]
                    [] i = radiotapSignalPower ->
                         [old EXCEPT !.SignalPower = Int8(At(dataFields, fieldOffset))]
                    [] i = radiotapTransmitPower ->
                         [old EXCEPT !.TransmitPower = Int8(At(dataFields, fieldOffset))]
                    [] OTHER -> old]

RECURSIVE FieldWalk(_, _, _, _)
\* for i, info := range radiotapFields, from field i on: fields whose bit is
\* clear in presentFlags (data[4:8]) are skipped.
FieldWalk(data, dataFields, i, st) ==
    IF i = Len(radiotapFields) \/ st.err # "nil" THEN st
    ELSE IF WordBit(data, 4, i) = 0 THEN FieldWalk(data, dataFields, i + 1, st)
    ELSE FieldWalk(data, dataFields, i + 1, FieldStep(dataFields, i, st))

\* FrameOf with the FCS flag looked at first: a frame that has its checksum
\* is returned before the padding flag is tested.
FrameOfChecksumFirst(data, headerSize, flags, radioInfo) ==
    LET frame == Slice(data, headerSize, Len(data))
    IN  IF HasFlag(flags, radiotapFlagHasFCS)
        THEN Success(frame, radioInfo)
        ELSE IF HasFlag(flags, radiotapFlagHasPadding)
        THEN Failure("unsupported")
        ELSE Success(WithChecksum(frame), radioInfo)

\* FrameOf with the checksum appended whatever the FCS flag says.
FrameOfAlwaysChecksum(data, headerSize, flags, radioInfo) ==
    LET frame == Slice(data, headerSize, Len(data))
    IN  IF HasFlag(flags, radiotapFlagHasPadding)
        THEN Failure("unsupported")
        ELSE Success(WithChecksum(frame), radioInfo)

\* The end of parseRadiotapPacket: the frame is what follows the header; the
\* padding flag is refused, and a frame without checksum gets one.
FrameOf(data, headerSize, flags, radioInfo) ==
    LET frame == Slice(data, headerSize, Len(data))
    IN  IF HasFlag(flags, radiotapFlagHasPadding)
        THEN Failure("unsupported")
        ELSE IF ~HasFlag(flags, radiotapFlagHasFCS)
        THEN Success(WithChecksum(frame), radioInfo)
        ELSE Success(frame, radioInfo)

\* The part of parseRadiotapPacket after the header size has been checked.
ParseFields(data, headerSize) ==
    LET extended == WordBit(data, 4, 31) = 1
        first == IF extended THEN 12 ELSE 8
    IN  IF extended /\ (Len(data) < 12 \/ headerSize < 12)
        THEN Failure("ErrBufferUnderflow")
        ELSE IF first > headerSize \/ headerSize > Len(data)
        THEN Failure("panic")
        ELSE LET st == FieldWalk(data, Slice(data, first, headerSize), 0,
                                 [err |-> "nil", fieldOffset |-> 0, flags |-> 0,
                                  radioInfo |-> ZeroRadioInfo])
             IN  IF st.err # "nil" THEN Failure(st.err)
                 ELSE FrameOf(data, headerSize, st.flags, st.radioInfo)

\* parseRadiotapPacket without the test headerSize < 8.
parseRadiotapPacketAnyHeaderSize(data) ==
    IF Len(data) < 8 THEN Failure("ErrBufferUnderflow")
    ELSE LET headerSize == Uint16(data, 2)
         IN  IF Len(data) < headerSize THEN Failure("ErrBufferUnderflow")
             ELSE ParseFields(data, headerSize)

\* parseRadiotapPacket(data)
parseRadiotapPacket(data) ==
    IF Len(data) < 8 THEN Failure("ErrBufferUnderflow")
    ELSE IF Len(data) < 4 THEN Failure("panic")
    ELSE LET headerSize == Uint16(data, 2)
         IN  IF Len(data) < headerSize \/ headerSize < 8
             THEN Failure("ErrBufferUnderflow")
             ELSE IF Len(data) < 8 THEN Failure("panic")
             ELSE ParseFields(data, headerSize)

\* encodeRadiotapPacket with a Flags byte of 0 in place of the FCS flag.
encodeRadiotapPacketNoFCS(f, r) ==
    <<0, 0, 10, 0, 2 ^ radiotapFlags + 2 ^ radiotapRate, 0, 0, 0, 0, r % 256>> \o f

\* encodeRadiotapPacket(f, r): a 10-byte header (length 10, Flags and Rate
\* present, the FCS flag, the rate) and the frame.
encodeRadiotapPacket(f, r) ==
    <<0, 0, 10, 0, 2 ^ radiotapFlags + 2 ^ radiotapRate, 0, 0, 0,
      radiotapFlagHasFCS, r % 256>> \o f

\* ------------------------------------------------- the codec as a machine
\* encodeRadiotapPacket(codecFrame, codecRate) is called; its result is the
\* buffer that parseRadiotapPacket gets next.
EncodeRadiotap ==
    /\ codecStage = "frame"
    /\ codecIn' = encodeRadiotapPacket(codecFrame, codecRate)
    /\ codecStage' = "encoded"
    /\ UNCHANGED <<handle, demux, units, codecFrame, codecRate, codecOut>>

\* parseRadiotapPacket(codecIn) is called, on a received buffer ("input") or
\* on what encodeRadiotapPacket made ("encoded").
ParseRadiotap ==
    /\ codecStage \in {"input", "encoded"}
    /\ codecOut' = parseRadiotapPacket(codecIn)
    /\ codecStage' = IF codecStage = "input" THEN "decoded" ELSE "roundtrip"
    /\ UNCHANGED <<handle, demux, units, codecFrame, codecRate, codecIn>>

\* parseRadiotapPacket has returned.
Decoded == codecStage \in {"decoded", "roundtrip"}

\* ----------------------------------------------------- inputs of the codec
\* The longest frame given to the codec.
MaxFrame == 3

\* The byte values frames are made of.
FrameBytes == {1, 200}

RECURSIVE FramesOf(_)
\* The frames of at most n bytes.
FramesOf(n) ==
    IF n = 0 THEN {<<>>}
    ELSE LET shorter == FramesOf(n - 1)
         IN  shorter \cup {Append(f, b) : f \in {g \in shorter : Len(g) = n - 1},
                                          b \in FrameBytes}

Frames == FramesOf(MaxFrame)

\* Data-rate codes; byte(r) keeps the low 8 bits of the last one.
DataRates == {0, 2, 108, 255, 258}

\* Values of the Flags field: neither flag, FCS, padding, both.
FlagBytes == {0, radiotapFlagHasFCS, radiotapFlagHasPadding,
              radiotapFlagHasFCS + radiotapFlagHasPadding}

\* Field areas that begin with a Flags byte or, after 8 bytes of TSFT, hold
\* one; the longest has Flags, Rate, Channel, both powers and transmit power;
\* the last two have Flags, a byte that aligns Channel, and Channel, whole
\* and cut short by a byte.
FieldAreas ==
    {<<>>}
    \cup {<<b>> : b \in FlagBytes}
    \cup {<<b, 2>> : b \in FlagBytes}
    \cup {<<b, 2, 108, 9, 0, 0, 200, 160, 5>> : b \in FlagBytes}
    \cup {<<0, 0, 0, 0, 0, 0, 0, 0, b>> : b \in FlagBytes}
    \cup {<<b, 9, 255, 255, 0, 0>> : b \in FlagBytes}
    \cup {<<b, 9, 255, 255, 0>> : b \in FlagBytes}

\* Present-field bitmaps: nothing; Flags; Flags and Rate; Flags, Rate,
\* Channel, both powers and transmit power; TSFT and Flags; Flags with the
\* bit that announces a second bitmap word; Flags and Channel.
PresentWords ==
    {<<0, 0, 0, 0>>, <<2, 0, 0, 0>>, <<6, 0, 0, 0>>, <<110, 4, 0, 0>>,
     <<3, 0, 0, 0>>, <<2, 0, 0, 128>>, <<10, 0, 0, 0>>}

\* The second bitmap word, where the first announces one.
SecondWord(present) == IF present[4] >= 128 THEN <<0, 0, 0, 0>> ELSE <<>>

\* A radiotap buffer: version, pad, header size, bitmap, fields, frame.
RadiotapBytes(headerSize, present, fields, frame) ==
    <<0, 0, headerSize % 256, headerSize \div 256>> \o present
        \o SecondWord(present) \o fields \o frame

\* Header sizes: the true one, and sizes that are too small or too large.
HeaderSizes(present, fields) ==
    {8 + Len(SecondWord(present)) + Len(fields), 0, 7, 8, 12, 300}

\* Buffers of fewer than 8 bytes.
ShortInputs ==
    {SubSeq(x, 1, n) : n \in 0..7,
                       x \in {encodeRadiotapPacket(<<>>, 2), <<0, 0, 0, 0, 0, 0, 0>>}}

\* The buffers parseRadiotapPacket is given.
RawInputs ==
    ShortInputs
    \cup UNION {UNION {{RadiotapBytes(h, p, a, f) : h \in HeaderSizes(p, a), f \in Frames}
                       : a \in FieldAreas}
                : p \in PresentWords}

\* ============================================================ parsePackets
dltIEEE802_11_RADIO == 127
dltIEEE802_11 == 105

\* The largest value of a 32-bit int.
MaxInt32 == 2147483647

\* The four bytes of data[k:] read as a signed 32-bit integer.
Int32(data, k) ==
    LET low == At(data, k) + 256 * At(data, k + 1) + 65536 * At(data, k + 2)
                  + 16777216 * (At(data, k + 3) % 128)
    IN  IF At(data, k + 3) >= 128 THEN (low - MaxInt32) - 1 ELSE low

\* A Go int of the build: a number n that fits 32 bits, or (only where int
\* has 64 bits) some number of 2^31 or more, which exceeds every buffer
\* length.
Small(n) == [huge |-> FALSE, n |-> n]
Huge == [huge |-> TRUE, n |-> 0]

\* int(binary.LittleEndian.Uint32(data[k:])): where int has 32 bits the
\* conversion wraps to the signed reading; where it has 64 bits a value of
\* 2^31 or more stays positive.
IntOfUint32(data, k) ==
    LET signed == Int32(data, k)
    IN  IF intBits = 64 /\ signed < 0 THEN Huge ELSE Small(signed)

\* length < 0
IsNegative(length) == ~length.huge /\ length.n < 0

\* i + headerLength + capturedLength as the build computes it, for a
\* captured length that is not negative: the exact sum where int holds it,
\* the sum wrapped to a negative number where int has 32 bits and the sum
\* passes MaxInt32.
PayloadEnd(i, headerLength, capturedLength) ==
    IF capturedLength.huge THEN Huge
    ELSE IF capturedLength.n > MaxInt32 - (i + headerLength)
    THEN IF intBits = 64 THEN Huge
         ELSE Small(((capturedLength.n - MaxInt32) - 1) + (i + headerLength)
                        - MaxInt32 - 1)
    ELSE Small(i + headerLength + capturedLength.n)

\* end > len(data)
Exceeds(end, length) == end.huge \/ end.n > length

\* align4 without the test of (i & 3) == 0: always moves on.
align4Always(i) == i + 4 - (i % 4)

\* align4(i)
align4(i) == IF i % 4 = 0 THEN i ELSE i + 4 - (i % 4)

\* parsePacket that decodes radiotap whatever the data-link type is.
parsePacketAlwaysRadiotap(data) == parseRadiotapPacket(data)

\* bpfHandle.parsePacket(data): a bare frame gets its checksum and no
\* RadioInfo, a radiotap packet is decoded.
parsePacket(data) ==
    IF dataLinkType = dltIEEE802_11 THEN Success(WithChecksum(data), Nil)
    ELSE IF dataLinkType = dltIEEE802_11_RADIO THEN parseRadiotapPacket(data)
    ELSE Failure("invalid data-link type")

\* ParseStart without the test of len(data) == 0.
ParseStartNoEmptyCheck ==
    /\ parseErr = "idle"
    /\ parseErr' = "loop"
    /\ UNCHANGED <<handle, codec, units, intBits, dataLinkType, records, parseData, parseI,
                   parseRes, taken>>

\* parsePackets, entry: an empty buffer is refused, otherwise the loop starts
\* with i = 0 and an empty res.
ParseStart ==
    /\ parseErr = "idle"
    /\ parseErr' = IF Len(parseData) = 0 THEN "ErrBufferUnderflow" ELSE "loop"
    /\ UNCHANGED <<handle, codec, units, intBits, dataLinkType, records, parseData, parseI,
                   parseRes, taken>>

\* What one pass through the loop body at offset i does: the error it
\* returns, or the packet it appends and the offset the loop goes on from.
RecordAt(data, i) ==
    IF i + 18 > Len(data) THEN [err |-> "panic"]
    ELSE
    LET capturedLength == IntOfUint32(data, i + 8)
        originalLength == IntOfUint32(data, i + 12)
        headerLength == Uint16(data, i + 16)
    IN  IF IsNegative(capturedLength) \/ IsNegative(originalLength)
        THEN [err |-> "ErrBufferUnderflow"]
        ELSE
        LET end == PayloadEnd(i, headerLength, capturedLength)
        IN  IF Exceeds(end, Len(data)) THEN [err |-> "ErrBufferUnderflow"]
            ELSE IF end.n < i + headerLength \/ i + headerLength > Len(data)
            THEN [err |-> "panic"]
            ELSE LET p == parsePacket(Slice(data, i + headerLength, end.n))
                 IN  IF p.err # "nil" THEN [err |-> p.err]
                     ELSE [err |-> "nil", packet |-> p.packet,
                           from |-> i + headerLength, to |-> end.n,
                           next |-> align4(end.n)]

\* The bound on the packets one parsePackets call appends in the model.
MaxIterations == 4

\* One iteration of the loop: the condition i < len(data)-18 holds, the body
\* runs and either returns an error or appends a packet; then
\* i += headerLength + capturedLength and the post statement i = align4(i).
ParseRecord ==
    /\ parseErr = "loop"
    /\ parseI < Len(parseData) - 18
    /\ Len(parseRes) < MaxIterations
    /\ LET r == RecordAt(parseData, parseI)
       IN  IF r.err # "nil"
           THEN /\ parseErr' = r.err
                /\ UNCHANGED <<parseI, parseRes, taken>>
           ELSE /\ parseRes' = Append(parseRes, r.packet)
                /\ taken' = Append(taken, [at |-> parseI, from |-> r.from, to |-> r.to])
                /\ parseI' = r.next
                /\ UNCHANGED parseErr
    /\ UNCHANGED <<handle, codec, units, intBits, dataLinkType, records, parseData>>

\* The loop condition fails: return res, nil.
ParseReturn ==
    /\ parseErr = "loop"
    /\ ~(parseI < Len(parseData) - 18)
    /\ parseErr' = "nil"
    /\ UNCHANGED <<handle, codec, units, intBits, dataLinkType, records, parseData, parseI,
                   parseRes, taken>>

\* What parsePackets has returned: (nil, err) or (res, nil).
ParseDone == parseErr \notin {"unused", "idle", "loop"}
ParseResult == IF parseErr = "nil" THEN parseRes ELSE <<>>

\* ------------------------------------------------------------ read buffers
\* The number n < 65536 as the four bytes of a little-endian 32-bit field.
LE32(n) == <<n % 256, n \div 256, 0, 0>>

\* A capture record without the padding behind it: the bpf header (8 bytes
\* of timestamp, captured length, original length, header length, filled up
\* to the header length) and the payload.
RecordBody(r) ==
    <<0, 0, 0, 0, 0, 0, 0, 0>> \o r.cl \o r.ol
        \o <<r.hl % 256, r.hl \div 256>>
        \o [k \in 1..(IF r.hl > 18 /\ r.hl < 64 THEN r.hl - 18 ELSE 0) |-> 170]
        \o r.payload

\* A capture record as the device lays it out before another record: its
\* body, and padding up to a multiple of 4.
RecordBytes(r) ==
    LET body == RecordBody(r)
    IN  body \o [k \in 1..(align4(Len(body)) - Len(body)) |-> 85]

RECURSIVE Layout(_)
\* The read buffer holding the records rs one after the other.
Layout(rs) == IF rs = <<>> THEN <<>> ELSE RecordBytes(Head(rs)) \o Layout(Tail(rs))

\* The buffers a read of the records rs can return: the last record is
\* padded like the others, or the read ends where its payload ends, or four
\* more bytes of padding follow the padded records.
ReadBuffers(rs) ==
    IF rs = <<>> THEN {<<>>}
    ELSE {Layout(rs),
          Layout(SubSeq(rs, 1, Len(rs) - 1)) \o RecordBody(rs[Len(rs)]),
          Layout(rs) \o <<85, 85, 85, 85>>}

\* Payloads of captured records: two radiotap packets as encodeRadiotapPacket
\* builds them (10 and 13 bytes), a single byte (a frame in the bare mode,
\* too short for radiotap), and nothing.
Payloads ==
    {encodeRadiotapPacket(<<>>, 2), encodeRadiotapPacket(<<1, 2, 3>>, 4), <<7>>, <<>>}

\* Records whose header says what the record holds.
HonestRecords ==
    {[hl |-> hl, cl |-> LE32(Len(p)), ol |-> LE32(Len(p)), payload |-> p] :
        hl \in {18, 20}, p \in Payloads}

\* Records whose header does not: a captured length of 2^31, of 2^31 - 1 and
\* of one byte too many, an original length of 2^31, a header length of 0
\* with and without payload, and a header length of 65535.
MalformedRecords ==
    LET p == encodeRadiotapPacket(<<>>, 2)
        rec(hl, cl, ol) == [hl |-> hl, cl |-> cl, ol |-> ol, payload |-> p]
    IN  {rec(18, <<0, 0, 0, 128>>, LE32(10)),
         rec(18, <<255, 255, 255, 127>>, LE32(10)),
         rec(18, LE32(11), LE32(11)),
         rec(18, LE32(10), <<0, 0, 0, 128>>),
         rec(0, LE32(0), LE32(0)),
         rec(0, LE32(28), LE32(28)),
         rec(65535, LE32(10), LE32(10))}

RecordKinds == HonestRecords \cup MalformedRecords

\* The bound on the records in one read buffer.
MaxRecords == 2

RECURSIVE RecordSeqs(_)
\* The sequences of at most n records.
RecordSeqs(n) ==
    IF n = 0 THEN {<<>>}
    ELSE LET shorter == RecordSeqs(n - 1)
         IN  shorter \cup {Append(rs, r) : rs \in shorter, r \in RecordKinds}

\* ------------------------------------------------------------ specification
NoReturn ==
    [op |-> "none", ret |-> "none", timedOut |-> FALSE, afterClose |-> FALSE,
     afterErrClosed |-> FALSE]

\* No parsePackets call is under way: the handle's reads are those of
\* ReceiveMany.
DemuxIdle ==
    /\ intBits = 64
    /\ dataLinkType = dltIEEE802_11_RADIO
    /\ records = <<>>
    /\ parseData = <<>>
    /\ parseI = 0
    /\ parseRes = <<>>
    /\ parseErr = "unused"
    /\ taken = <<>>

\* ========================================================== bpfHandle.Send
\* Send, first part: sendData is the frame, or in radiotap mode the frame
\* behind the header encodeRadiotapPacket makes (with whatever data rate the
\* build passes).
SendEncode ==
    /\ bpfSendCall.stage = "called"
    /\ \E r \in DataRates :
          bpfSendCall' =
              [stage |-> "write", frame |-> bpfSendCall.frame,
               sendData |-> IF dataLinkType = dltIEEE802_11_RADIO
                            THEN encodeRadiotapPacket(bpfSendCall.frame, r)
                            ELSE bpfSendCall.frame]
    /\ UNCHANGED <<handle, demux, codec, setChannelCall, widthCall, newHandleCall,
                   receiveManyCall>>

\* What Send returns once unix.Write has returned (n, err): the error, or
\* "full packet was not sent" if n < len(frame), or nil.
SendResult(frame, n, err) ==
    IF err # "nil" THEN err
    ELSE IF n < Len(frame) THEN "full packet was not sent"
    ELSE "nil"

\* Send, second part: unix.Write(b.fd, sendData) fails, or writes n of the
\* bytes, and Send returns.
SendWrite ==
    /\ bpfSendCall.stage = "write"
    /\ \E out \in {[n |-> -1, err |-> "EIO"]}
                  \cup {[n |-> n, err |-> "nil"] : n \in 0..Len(bpfSendCall.sendData)} :
          bpfSendCall' =
              [stage |-> "returned", frame |-> bpfSendCall.frame,
               sendData |-> bpfSendCall.sendData, n |-> out.n, err |-> out.err,
               result |-> SendResult(bpfSendCall.frame, out.n, out.err)]
    /\ UNCHANGED <<handle, demux, codec, setChannelCall, widthCall, newHandleCall,
                   receiveManyCall>>

\* ================================================= osxInterface.SetChannel
ChannelWidthUnspecified == 0
ChannelWidth20MHz == 1
ChannelWidth40MHz == 2

\* decodeA80211ChannelDesc(desc): the number, and 40 MHz if bit 2 of the
\* flags is set, 20 MHz otherwise.
decodeA80211ChannelDesc(desc) ==
    [Number |-> desc.number,
     Width |-> IF BitOf(desc.flags, 2) = 1 THEN ChannelWidth40MHz ELSE ChannelWidth20MHz]

\* if c.Width == 0 { c.Width = ChannelWidth20MHz }
DefaultWidth(c) ==
    IF c.Width = ChannelWidthUnspecified THEN [c EXCEPT !.Width = ChannelWidth20MHz]
    ELSE c

\* No set request.
NoRequest == [number |-> 0, flags |-> 0]

RECURSIVE ScanChannels(_, _, _)
\* The loop over the supported channels from index i on: the first
\* descriptor that decodes to c is sent back in a set request; if there is
\* none, the result is the error "unknown channel" and nothing is sent.
ScanChannels(supported, i, c) ==
    IF i > Len(supported) THEN [found |-> FALSE, request |-> NoRequest]
    ELSE IF decodeA80211ChannelDesc(supported[i]) = c
    THEN [found |-> TRUE, request |-> supported[i]]
    ELSE ScanChannels(supported, i + 1, c)

\* SetChannel, first part: the width defaults, and the supported channels are
\* fetched; an OS error of the get request is returned.
SetChannelGet ==
    /\ setChannelCall.stage = "called"
    /\ \E ok \in BOOLEAN :
          setChannelCall' =
              IF ok
              THEN [setChannelCall EXCEPT !.stage = "scan",
                                          !.c = DefaultWidth(setChannelCall.arg)]
              ELSE [setChannelCall EXCEPT !.stage = "returned", !.result = "EIO"]
    /\ UNCHANGED <<handle, demux, codec, bpfSendCall, widthCall, newHandleCall,
                   receiveManyCall>>

\* SetChannel, second part: the loop, and for a channel found the set
\* request, whose outcome (nil or an OS error) is returned.
SetChannelScan ==
    /\ setChannelCall.stage = "scan"
    /\ LET scan == ScanChannels(setChannelCall.supported, 1, setChannelCall.c)
       IN  \E ok \in BOOLEAN :
              /\ ~scan.found => ok
              /\ setChannelCall' =
                     [setChannelCall EXCEPT
                         !.stage = "returned",
                         !.request = scan.request,
                         !.result = IF ~scan.found THEN "unknown channel"
                                    ELSE IF ok THEN "nil" ELSE "EIO"]
    /\ UNCHANGED <<handle, demux, codec, bpfSendCall, widthCall, newHandleCall,
                   receiveManyCall>>

\* The most channels the controller lists.
MaxChannels == 2

\* Channel numbers, and descriptor flags with and without the 40 MHz bit.
ChannelNumbers == {1, 36}
DescriptorFlags == {2, 4}
Descriptors == [number : ChannelNumbers, flags : DescriptorFlags]

\* The lists of at most MaxChannels supported channels.
SupportedLists == UNION {[1..n -> Descriptors] : n \in 0..MaxChannels}

\* The channels a caller may ask for; 40 is a number no list holds.
RequestedChannels ==
    [Number : ChannelNumbers \cup {40},
     Width : {ChannelWidthUnspecified, ChannelWidth20MHz, ChannelWidth40MHz}]

\* ============================================================ ChannelWidth
\* NewChannelWidthMegahertz(mhz)
NewChannelWidthMegahertz(mhz) ==
    CASE mhz = 20 -> ChannelWidth20MHz
      [] mhz = 40 -> ChannelWidth40MHz
      [] OTHER -> ChannelWidthUnspecified

\* Megahertz with a map that lacks the entry for 40 MHz.
MegahertzWithout40(w) == IF w = ChannelWidth20MHz THEN 20 ELSE 0

\* w.Megahertz(): the map's entry for w, and 0 where it has none.
Megahertz(w) ==
    CASE w = ChannelWidth20MHz -> 20
      [] w = ChannelWidth40MHz -> 40
      [] OTHER -> 0

\* NewChannelWidthMegahertz is called, on a number of megahertz given by the
\* caller or on the one Megahertz returned.
WidthFromMegahertz ==
    /\ widthCall.stage \in {"megahertz", "in megahertz"}
    /\ widthCall' =
          IF widthCall.stage = "megahertz"
          THEN [widthCall EXCEPT !.stage = "made",
                                 !.width = NewChannelWidthMegahertz(widthCall.mhz)]
          ELSE [widthCall EXCEPT !.stage = "roundtrip",
                                 !.back = NewChannelWidthMegahertz(widthCall.mhz)]
    /\ UNCHANGED <<handle, demux, codec, bpfSendCall, setChannelCall, newHandleCall,
                   receiveManyCall>>

\* w.Megahertz() is called on a width.
WidthToMegahertz ==
    /\ widthCall.stage = "width"
    /\ widthCall' = [widthCall EXCEPT !.stage = "in megahertz",
                                      !.mhz = Megahertz(widthCall.width)]
    /\ UNCHANGED <<handle, demux, codec, bpfSendCall, setChannelCall, newHandleCall,
                   receiveManyCall>>

\* The largest number of megahertz, in absolute value, that is converted.
MaxMegahertz == 60

\* The three widths.
ChannelWidths == {ChannelWidthUnspecified, ChannelWidth20MHz, ChannelWidth40MHz}

\* None of the single calls is under way.
UnitsIdle ==
    /\ bpfSendCall = [stage |-> "unused"]
    /\ setChannelCall = [stage |-> "unused"]
    /\ widthCall = [stage |-> "unused"]
    /\ newHandleCall = [stage |-> "unused"]
    /\ receiveManyCall = [stage |-> "unused"]

\* No codec call is under way.
CodecIdle ==
    /\ codecStage = "unused"
    /\ codecFrame = <<>>
    /\ codecRate = 0
    /\ codecIn = <<>>
    /\ codecOut = Failure("unused")

\* The handle as NewHandle returns it: both resources open, every lock free,
\* the packet list empty.
Init ==
    /\ pc = [t \in Threads |-> "idle"]
    /\ op = [t \in Threads |-> "none"]
    /\ bpfHandle = "bpf"
    /\ osxInterface = "iface"
    /\ bpfHandleLock = [writer |-> None, readers |-> {}]
    /\ osxInterfaceLock = None
    /\ receiveLock = None
    /\ sendLock = None
    /\ readBuffer = <<>>
    /\ bpfCloseCount = 0
    /\ ifaceCloseCount = 0
    /\ nextPacket = 0
    /\ lastRead = "none"
    /\ delivered = <<>>
    /\ timedOut = [t \in Threads |-> FALSE]
    /\ afterClose = [t \in Threads |-> FALSE]
    /\ afterErrClosed = [t \in Threads |-> FALSE]
    /\ last = NoReturn
    /\ closeReturned = FALSE
    /\ errClosedReturned = FALSE
    /\ closeCalls = 0
    /\ calls = 0
    /\ panicked = FALSE
    /\ DemuxIdle
    /\ CodecIdle
    /\ UnitsIdle

\* One step of goroutine t inside the handler it has invoked.
Step(t) ==
    \/ ChLock(t)
    \/ ChCall(t)
    \/ RecvLock(t)
    \/ PopulateRLock(t)
    \/ ReceiveMany(t)
    \/ SendLock(t)
    \/ SendRLock(t)
    \/ BpfSend(t)
    \/ CloseRequestLock(t)
    \/ CloseBpf(t)
    \/ CloseInterface(t)

Next ==
    \/ \E t \in Threads, o \in Ops : Call(t, o)
    \/ \E t \in Threads : Step(t)

Spec == Init /\ [][Next]_vars

\* The handle as in Init, with everything but the demultiplexer left alone.
HandleInit ==
    /\ pc = [t \in Threads |-> "idle"]
    /\ op = [t \in Threads |-> "none"]
    /\ bpfHandle = "bpf"
    /\ osxInterface = "iface"
    /\ bpfHandleLock = [writer |-> None, readers |-> {}]
    /\ osxInterfaceLock = None /\ receiveLock = None /\ sendLock = None
    /\ readBuffer = <<>> /\ delivered = <<>>
    /\ bpfCloseCount = 0 /\ ifaceCloseCount = 0
    /\ nextPacket = 0 /\ lastRead = "none"
    /\ timedOut = [t \in Threads |-> FALSE]
    /\ afterClose = [t \in Threads |-> FALSE]
    /\ afterErrClosed = [t \in Threads |-> FALSE]
    /\ last = NoReturn
    /\ closeReturned = FALSE /\ errClosedReturned = FALSE
    /\ closeCalls = 0 /\ calls = 0
    /\ panicked = FALSE

\* One parsePackets call, for every build, either data-link type and every
\* read buffer laid out from at most MaxRecords records.
DemuxInit ==
    /\ HandleInit
    /\ CodecIdle
    /\ UnitsIdle
    /\ intBits \in {32, 64}
    /\ dataLinkType \in {dltIEEE802_11, dltIEEE802_11_RADIO}
    /\ records \in RecordSeqs(MaxRecords)
    /\ parseData \in ReadBuffers(records)
    /\ parseI = 0
    /\ parseRes = <<>>
    /\ parseErr = "idle"
    /\ taken = <<>>

DemuxNext == ParseStart \/ ParseRecord \/ ParseReturn

DemuxSpec == DemuxInit /\ [][DemuxNext]_vars

\* The radiotap codec on its own: either a buffer to decode, or a frame and
\* a data rate to encode and decode again.
CodecInit ==
    /\ HandleInit
    /\ DemuxIdle
    /\ UnitsIdle
    /\ codecOut = Failure("idle")
    /\ \/ /\ codecStage = "input"
          /\ codecIn \in RawInputs
          /\ codecFrame = <<>>
          /\ codecRate = 0
       \/ /\ codecStage = "frame"
          /\ codecFrame \in Frames
          /\ codecRate \in DataRates
          /\ codecIn = <<>>

CodecNext == EncodeRadiotap \/ ParseRadiotap

CodecSpec == CodecInit /\ [][CodecNext]_vars

\* bpfHandle.Send on its own: a frame to send, in either data-link mode.
SendInit ==
    /\ HandleInit
    /\ CodecIdle
    /\ intBits = 64
    /\ dataLinkType \in {dltIEEE802_11, dltIEEE802_11_RADIO}
    /\ records = <<>> /\ parseData = <<>> /\ parseI = 0
    /\ parseRes = <<>> /\ parseErr = "unused" /\ taken = <<>>
    /\ bpfSendCall \in {[stage |-> "called", frame |-> f] : f \in Frames}
    /\ setChannelCall = [stage |-> "unused"]
    /\ widthCall = [stage |-> "unused"]
    /\ newHandleCall = [stage |-> "unused"]
    /\ receiveManyCall = [stage |-> "unused"]

SendNext == SendEncode \/ SendWrite

SendSpec == SendInit /\ [][SendNext]_vars

\* osxInterface.SetChannel on its own: a list of supported channels that the
\* controller reports, and the channel asked for.
SetChannelInit ==
    /\ HandleInit
    /\ DemuxIdle
    /\ CodecIdle
    /\ bpfSendCall = [stage |-> "unused"]
    /\ widthCall = [stage |-> "unused"]
    /\ newHandleCall = [stage |-> "unused"]
    /\ receiveManyCall = [stage |-> "unused"]
    /\ setChannelCall \in
          {[stage |-> "called", supported |-> l, arg |-> a, c |-> a,
            request |-> NoRequest, result |-> "none"] :
              l \in SupportedLists, a \in RequestedChannels}

SetChannelNext == SetChannelGet \/ SetChannelScan

SetChannelSpec == SetChannelInit /\ [][SetChannelNext]_vars

\* The ChannelWidth conversions on their own: a number of megahertz to turn
\* into a width, or a width to turn into megahertz and back.
WidthInit ==
    /\ HandleInit
    /\ DemuxIdle
    /\ CodecIdle
    /\ bpfSendCall = [stage |-> "unused"]
    /\ setChannelCall = [stage |-> "unused"]
    /\ newHandleCall = [stage |-> "unused"]
    /\ receiveManyCall = [stage |-> "unused"]
    /\ widthCall \in
          {[stage |-> "megahertz", mhz |-> m, width |-> ChannelWidthUnspecified,
            back |-> ChannelWidthUnspecified] : m \in (-MaxMegahertz)..MaxMegahertz}
          \cup {[stage |-> "width", mhz |-> 0, width |-> w,
                 back |-> ChannelWidthUnspecified] : w \in ChannelWidths}

WidthNext == WidthFromMegahertz \/ WidthToMegahertz

WidthSpec == WidthInit /\ [][WidthNext]_vars

\* ================================================================ NewHandle
\* The outcomes of the operating-system calls NewHandle makes: success, or
\* an errno. ENOENT stands for every errno the code does not name.
OpenErrors == {"nil", "EACCES", "EBUSY", "ENOENT"}

\* The bound on the numbered capture devices that are busy.
MaxBusy == 3

\* The first size SetReasonableBufferSize asks for.
FirstBufferSize == 524288

\* "/dev/bpf", and "/dev/bpf" + strconv.Itoa(i).
PrimaryPath == <<"/dev/bpf">>
NumberedPath(i) == <<"/dev/bpf", i>>

\* The value NewHandle returns: no error, an errno of the operating
\* system, or one of the errors the code makes, with the path it names.
NoError == [err |-> "nil", path |-> <<>>]
Errno(e) == [err |-> e, path |-> <<>>]
PermissionsDenied(path) == [err |-> "permissions denied for: ", path |-> path]

\* NewHandle has been called: nothing is open, no step has run.
NewHandleCalled ==
    [stage |-> "socket", ifaceFd |-> "none", bpfFd |-> "none", bpfPath |-> <<>>,
     opened |-> <<>>,
     sizes |-> <<>>, readBuffer |-> 0, requested |-> <<>>, steps |-> <<>>,
     result |-> [err |-> "none", path |-> <<>>],
     session |-> [op |-> "none"]]

\* NewHandle returns err; closeBpf says whether bpf.Close() is called first.
NewHandleFails(err, closeBpf) ==
    /\ newHandleCall' =
          [newHandleCall EXCEPT !.stage = "returned", !.result = err,
                                !.bpfFd = IF closeBpf THEN "closed" ELSE @]
    /\ UNCHANGED dataLinkType

\* newOSXInterface: unix.Socket gives a descriptor, or fails and NewHandle
\* returns the error.
OpenSocket ==
    /\ newHandleCall.stage = "socket"
    /\ \E ok \in BOOLEAN :
          IF ok
          THEN /\ newHandleCall' =
                     [newHandleCall EXCEPT !.stage = "capabilities", !.ifaceFd = "open"]
               /\ UNCHANGED dataLinkType
          ELSE NewHandleFails(Errno("EMFILE"), FALSE)
    /\ UNCHANGED <<handle, intBits, records, parseData, parseI, parseRes, parseErr,
                   taken, codec, bpfSendCall, setChannelCall, widthCall,
                   receiveManyCall>>

\* newOSXInterface: the capabilities request succeeds, or fails and the
\* error is returned, the socket staying as it is; then inter.Disassociate(),
\* whose result NewHandle does not look at.
ProbeCapabilities ==
    /\ newHandleCall.stage = "capabilities"
    /\ \E ok \in BOOLEAN :
          IF ok
          THEN /\ newHandleCall' = [newHandleCall EXCEPT !.stage = "open"]
               /\ UNCHANGED dataLinkType
          ELSE NewHandleFails(Errno("ENXIO"), FALSE)
    /\ UNCHANGED <<handle, intBits, records, parseData, parseI, parseRes, parseErr,
                   taken, codec, bpfSendCall, setChannelCall, widthCall,
                   receiveManyCall>>

\* The path newBpfHandle opens next: "/dev/bpf" first, then the numbered
\* paths from 0 on.
NextPath(opened) ==
    IF opened = <<>> THEN PrimaryPath ELSE NumberedPath(Len(opened) - 1)

\* OpenVerdict with "/dev/bpf" treated like the numbered paths.
OpenVerdictNumberedOnly(path, err) ==
    IF err = "nil" THEN "opened"
    ELSE IF err = "EACCES" THEN "denied"
    ELSE IF err # "EBUSY" THEN "failed"
    ELSE "next"

\* What newBpfHandle does once unix.Open(path) has returned err: "opened",
\* "denied", "failed" (the errno is returned) or "next" (another path is
\* tried).
OpenVerdict(path, err) ==
    IF err = "nil" THEN "opened"
    ELSE IF err = "EACCES" THEN "denied"
    ELSE IF path = PrimaryPath THEN "next"
    ELSE IF err # "EBUSY" THEN "failed"
    ELSE "next"

\* newBpfHandle, one unix.Open: the descriptor is kept, or the error of a
\* refused path is returned by NewHandle, or the next path is tried.
OpenDevice ==
    /\ newHandleCall.stage = "open"
    /\ \E err \in OpenErrors :
          LET path == NextPath(newHandleCall.opened)
              tried == Append(newHandleCall.opened, [path |-> path, err |-> err])
              verdict == OpenVerdict(path, err)
          IN  /\ (err = "EBUSY" /\ path # PrimaryPath) => Len(newHandleCall.opened) <= MaxBusy
              /\ CASE verdict = "opened" ->
                        /\ newHandleCall' =
                              [newHandleCall EXCEPT !.stage = "buffer", !.opened = tried,
                                                    !.bpfFd = "open", !.bpfPath = path]
                        /\ UNCHANGED dataLinkType
                   [] verdict = "next" ->
                        /\ newHandleCall' = [newHandleCall EXCEPT !.opened = tried]
                        /\ UNCHANGED dataLinkType
                   [] verdict = "denied" ->
                        /\ newHandleCall' =
                              [newHandleCall EXCEPT !.stage = "returned", !.opened = tried,
                                                    !.result = PermissionsDenied(path)]
                        /\ UNCHANGED dataLinkType
                   [] verdict = "failed" ->
                        /\ newHandleCall' =
                              [newHandleCall EXCEPT !.stage = "returned", !.opened = tried,
                                                    !.result = Errno(err)]
                        /\ UNCHANGED dataLinkType
    /\ UNCHANGED <<handle, intBits, records, parseData, parseI, parseRes, parseErr,
                   taken, codec, bpfSendCall, setChannelCall, widthCall,
                   receiveManyCall>>

\* NextSize that shifts the size right twice for every refusal.
NextSizeQuartered(sizes) ==
    IF sizes = <<>> THEN FirstBufferSize ELSE sizes[Len(sizes)] \div 4

\* The size SetReasonableBufferSize tries after the sizes tried so far, 0
\* when the loop is over: size starts at 0x80000 and is shifted right once
\* for every refusal.
NextSize(sizes) ==
    IF sizes = <<>> THEN FirstBufferSize ELSE sizes[Len(sizes)] \div 2

\* SetReasonableBufferSize, one SetReadBufferSize(size): the set request is
\* refused, or the size read back is smaller, or readBuffer is made with
\* size bytes; after the refusal of size 1 the loop ends with an error, which
\* setupBpfHandle returns and NewHandle returns after bpf.Close().
NegotiateBufferSize ==
    /\ newHandleCall.stage = "buffer"
    /\ LET size == NextSize(newHandleCall.sizes)
           tried == Append(newHandleCall.sizes, size)
       IN  \E outcome \in {"set refused", "unsupported buffer size", "nil"} :
              IF outcome = "nil"
              THEN /\ newHandleCall' =
                         [newHandleCall EXCEPT !.stage = "interface", !.sizes = tried,
                                               !.readBuffer = size]
                   /\ UNCHANGED dataLinkType
              ELSE IF size \div 2 > 0
              THEN /\ newHandleCall' = [newHandleCall EXCEPT !.sizes = tried]
                   /\ UNCHANGED dataLinkType
              ELSE /\ newHandleCall' =
                         [newHandleCall EXCEPT !.stage = "returned", !.sizes = tried,
                             !.bpfFd = "closed",
                             !.result = [err |-> "could not negotiate a buffer size",
                                         path |-> <<>>]]
                   /\ UNCHANGED dataLinkType
    /\ UNCHANGED <<handle, intBits, records, parseData, parseI, parseRes, parseErr,
                   taken, codec, bpfSendCall, setChannelCall, widthCall,
                   receiveManyCall>>

\* The steps of setupBpfHandle around SetupDataLink, each one request to the
\* device, and the stage that follows each.
ConfigSteps ==
    [interface |-> "datalink", promiscuous |-> "immediate", immediate |-> "hdrcmplt",
     hdrcmplt |-> "timeout", timeout |-> "done"]

\* setupBpfHandle, one of SetInterface, BecomePromiscuous, SetImmediate,
\* SetHeaderComplete, SetReadTimeout: the request succeeds and the next step
\* follows (after the last, NewHandle returns the handle), or it fails and
\* NewHandle returns the error after bpf.Close().
Configure ==
    /\ newHandleCall.stage \in DOMAIN ConfigSteps
    /\ LET step == newHandleCall.stage
           called == Append(newHandleCall.steps, step)
       IN  \E ok \in BOOLEAN :
              IF ~ok
              THEN /\ newHandleCall' =
                         [newHandleCall EXCEPT !.stage = "returned", !.steps = called,
                                               !.bpfFd = "closed", !.result = Errno("EINVAL")]
                   /\ UNCHANGED dataLinkType
              ELSE IF ConfigSteps[step] = "done"
              THEN /\ newHandleCall' =
                         [newHandleCall EXCEPT !.stage = "returned", !.steps = called,
                                               !.result = NoError]
                   /\ UNCHANGED dataLinkType
              ELSE /\ newHandleCall' =
                         [newHandleCall EXCEPT !.stage = ConfigSteps[step], !.steps = called]
                   /\ UNCHANGED dataLinkType
    /\ UNCHANGED <<handle, intBits, records, parseData, parseI, parseRes, parseErr,
                   taken, codec, bpfSendCall, setChannelCall, widthCall,
                   receiveManyCall>>

\* NextDataLinkType that asks for the bare type first.
NextDataLinkTypeBareFirst(requested) ==
    IF requested = <<>> THEN dltIEEE802_11 ELSE dltIEEE802_11_RADIO

\* The data-link type SetupDataLink asks for after those asked for so far.
NextDataLinkType(requested) ==
    IF requested = <<>> THEN dltIEEE802_11_RADIO ELSE dltIEEE802_11

\* SetupDataLink, one BIOCSDLT request: accepted, the type is recorded in
\* b.dataLinkType; refused, the bare type is asked for, and after that the
\* error is returned, by NewHandle after bpf.Close().
SetupDataLink ==
    /\ newHandleCall.stage = "datalink"
    /\ LET dlt == NextDataLinkType(newHandleCall.requested)
           asked == Append(newHandleCall.requested, dlt)
       IN  \E ok \in BOOLEAN :
              IF ok
              THEN /\ newHandleCall' =
                         [newHandleCall EXCEPT !.stage = "promiscuous", !.requested = asked,
                                               !.steps = Append(@, "datalink")]
                   /\ dataLinkType' = dlt
              ELSE IF dlt = dltIEEE802_11_RADIO
              THEN /\ newHandleCall' = [newHandleCall EXCEPT !.requested = asked]
                   /\ UNCHANGED dataLinkType
              ELSE /\ newHandleCall' =
                         [newHandleCall EXCEPT !.stage = "returned", !.requested = asked,
                             !.steps = Append(@, "datalink"), !.bpfFd = "closed",
                             !.result = [err |-> "could not use an 802.11 data-link type",
                                         path |-> <<>>]]
                   /\ UNCHANGED dataLinkType
    /\ UNCHANGED <<handle, intBits, records, parseData, parseI, parseRes, parseErr,
                   taken, codec, bpfSendCall, setChannelCall, widthCall,
                   receiveManyCall>>

\* NewHandle has returned a handle.
HandleReturned == newHandleCall.stage = "returned" /\ newHandleCall.result = NoError

\* A capture record of the session is decoded: bpfHandle.parsePacket(data).
SessionDecode ==
    /\ HandleReturned
    /\ \E data \in Payloads :
          newHandleCall' =
              [newHandleCall EXCEPT !.session =
                  [op |-> "decode", data |-> data, out |-> parsePacket(data)]]
    /\ UNCHANGED <<handle, demux, codec, bpfSendCall, setChannelCall, widthCall,
                   receiveManyCall>>

\* The frames sent in the session: the empty frame and those of one byte.
SessionFrames == {f \in Frames : Len(f) <= 1}

\* A frame of the session is sent: bpfHandle.Send(frame) makes sendData, the
\* frame as it is or behind a radiotap header.
SessionSend ==
    /\ HandleReturned
    /\ \E frame \in SessionFrames, r \in DataRates :
          newHandleCall' =
              [newHandleCall EXCEPT !.session =
                  [op |-> "send", data |-> frame,
                   out |-> IF dataLinkType = dltIEEE802_11_RADIO
                           THEN encodeRadiotapPacket(frame, r)
                           ELSE frame]]
    /\ UNCHANGED <<handle, demux, codec, bpfSendCall, setChannelCall, widthCall,
                   receiveManyCall>>

\* One NewHandle call against every answer of the operating system, and
\* the decodes and sends of the session it opens.
NewHandleInit ==
    /\ HandleInit
    /\ CodecIdle
    /\ intBits = 64
    /\ dataLinkType = 0
    /\ records = <<>> /\ parseData = <<>> /\ parseI = 0
    /\ parseRes = <<>> /\ parseErr = "unused" /\ taken = <<>>
    /\ bpfSendCall = [stage |-> "unused"]
    /\ setChannelCall = [stage |-> "unused"]
    /\ widthCall = [stage |-> "unused"]
    /\ receiveManyCall = [stage |-> "unused"]
    /\ newHandleCall = NewHandleCalled

NewHandleNext ==
    \/ OpenSocket
    \/ ProbeCapabilities
    \/ OpenDevice
    \/ NegotiateBufferSize
    \/ Configure
    \/ SetupDataLink
    \/ SessionDecode
    \/ SessionSend

NewHandleSpec == NewHandleInit /\ [][NewHandleNext]_vars

\* NewHandle runs on: a call that has started is not suspended for ever
\* (every step is one system call that returns).
NewHandleFairSpec == NewHandleSpec /\ WF_vars(NewHandleNext)

\* ====================================================== bpfHandle.ReceiveMany
\* The bound on the reads of one ReceiveMany call that a signal interrupts.
MaxInterrupts == 3

\* What unix.Read(b.fd, b.readBuffer) can return for the read buffer data:
\* -1 and an errno (EIO stands for every errno the code does not name), no
\* bytes, or the bytes of the buffer.
RawReads(data) ==
    {[amount |-> -1, err |-> e] : e \in {"EINTR", "ENXIO", "ETIMEDOUT", "EIO"}}
    \cup {[amount |-> 0, err |-> "nil"], [amount |-> Len(data), err |-> "nil"]}

\* ReadVerdict that hands a read of no bytes to parsePackets.
ReadVerdictPassesEmpty(amount, err) ==
    IF err = "EINTR" THEN "continue"
    ELSE IF err = "ENXIO" THEN "device is down"
    ELSE IF err = "ETIMEDOUT" THEN "errBPFReadTimeout"
    ELSE IF err # "nil" THEN err
    ELSE "parsePackets"

\* What ReceiveMany does with (amount, err): "continue", the error it
\* returns, or "parsePackets".
ReadVerdict(amount, err) ==
    IF err = "EINTR" THEN "continue"
    ELSE IF err = "ENXIO" THEN "device is down"
    ELSE IF err = "ETIMEDOUT" \/ amount = 0 THEN "errBPFReadTimeout"
    ELSE IF err # "nil" THEN err
    ELSE "parsePackets"

\* ReceiveMany, one pass of its loop: the read returns; the loop goes round,
\* or an error is returned, or parsePackets is called with the bytes read
\* and its result is the result of ReceiveMany.
ReadRaw ==
    /\ receiveManyCall.stage = "reading"
    /\ \E data \in ReadBuffers(records) :
       \E raw \in RawReads(data) :
          LET verdict == ReadVerdict(raw.amount, raw.err)
              reads == Append(receiveManyCall.reads, raw)
          IN  /\ raw.err = "EINTR" => Len(receiveManyCall.reads) < MaxInterrupts
              /\ CASE verdict = "continue" ->
                        /\ receiveManyCall' = [receiveManyCall EXCEPT !.reads = reads]
                        /\ UNCHANGED <<parseData, parseErr>>
                   [] verdict = "parsePackets" ->
                        /\ receiveManyCall' =
                              [receiveManyCall EXCEPT !.stage = "parsePackets",
                                                      !.reads = reads]
                        /\ parseData' = SubSeq(data, 1, raw.amount)
                        /\ parseErr' = "idle"
                   [] OTHER ->
                        /\ receiveManyCall' =
                              [stage |-> "returned", reads |-> reads, result |-> verdict]
                        /\ UNCHANGED <<parseData, parseErr>>
    /\ UNCHANGED <<handle, codec, intBits, dataLinkType, records, parseI, parseRes,
                   taken, bpfSendCall, setChannelCall, widthCall, newHandleCall>>

\* One ReceiveMany call, for either data-link type and every read buffer
\* laid out from one record.
ReceiveManyInit ==
    /\ HandleInit
    /\ CodecIdle
    /\ intBits = 64
    /\ dataLinkType \in {dltIEEE802_11, dltIEEE802_11_RADIO}
    /\ records \in RecordSeqs(1) \ {<<>>}
    /\ parseData = <<>> /\ parseI = 0
    /\ parseRes = <<>> /\ parseErr = "unused" /\ taken = <<>>
    /\ bpfSendCall = [stage |-> "unused"]
    /\ setChannelCall = [stage |-> "unused"]
    /\ widthCall = [stage |-> "unused"]
    /\ newHandleCall = [stage |-> "unused"]
    /\ receiveManyCall = [stage |-> "reading", reads |-> <<>>, result |-> "none"]

ReceiveManyNext == ReadRaw \/ ParseStart \/ ParseRecord \/ ParseReturn

ReceiveManySpec == ReceiveManyInit /\ [][ReceiveManyNext]_vars

TypeOK ==
    /\ bpfHandle \in {"bpf", "nil"}
    /\ osxInterface \in {"iface", "nil"}
    /\ bpfHandleLock.writer \in Threads \cup {None}
    /\ bpfHandleLock.readers \subseteq Threads
    /\ Len(readBuffer) <= MaxBatch
    /\ intBits \in {32, 64}
    /\ dataLinkType \in {dltIEEE802_11, dltIEEE802_11_RADIO}
    /\ Len(parseRes) = Len(taken)
    /\ codecStage \in {"unused", "input", "frame", "encoded", "decoded", "roundtrip"}
    /\ codecOut.err \in {"unused", "idle", "nil", "ErrBufferUnderflow", "unsupported"}

\* ------------------------------------------------------------ fair behaviours
\* The scenario of one Close: Close is invoked at most once on the handle.
CallSingleClose(t, o) ==
    /\ o = "Close" => closeCalls = 0
    /\ Call(t, o)

SingleCloseNext ==
    \/ \E t \in Threads, o \in Ops : CallSingleClose(t, o)
    \/ \E t \in Threads : Step(t)

\* Every goroutine that can take its next step eventually takes it: the Go
\* scheduler runs every runnable goroutine, the device read returns within
\* the read timeout that setupBpfHandle configures, and the device write and
\* the controller requests return. Callers are not obliged to call.
Fairness == \A t \in Threads : WF_vars(Step(t))

\* Every behaviour of the handle in which the goroutines keep running.
FairSpec == Spec /\ Fairness

\* The fair behaviours in which Close is invoked at most once.
SingleCloseSpec == Init /\ [][SingleCloseNext]_vars /\ Fairness

\* ================================================================== claims
InDeviceRead(t) == pc[t] = "reading"
InDeviceWrite(t) == pc[t] = "writing"

\* The most recent return is that of a call of o.
Returned(o) == last.op = o

\* C1: a Send that runs concurrently with a Close either finishes its device
\* write while the descriptor is still open and returns the write's result, or
\* performs no write and returns ErrClosed (which it does only once the
\* descriptor has been released); its write never runs on a released descriptor.
C1_SendBeforeCloseOrErrClosed ==
    /\ [](\A s \in Threads : InDeviceWrite(s) => fdOpen /\ bpfHandle = "bpf")
    /\ [][\A s \in Threads :
            (op[s] = "Send" /\ pc[s] # "idle" /\ pc'[s] = "idle") =>
               \/ /\ pc[s] = "writing"
                  /\ fdOpen
                  /\ last'.ret \in {"nil", "error"}
               \/ /\ pc[s] = "send_rlock"
                  /\ ~fdOpen
                  /\ last'.ret = "ErrClosed"]_vars

\* A Send is inside its device write while a Close waits for the guard.
C1_Witness ==
    \E s, c \in Threads :
        /\ op[s] = "Send" /\ InDeviceWrite(s)
        /\ op[c] = "Close" /\ pc[c] = "close_wait"

\* C2: no goroutine is ever inside a device read or write on a closed
\* descriptor: whoever is inside holds the read side of the guard on an open
\* descriptor, and once the descriptor is released nobody holds the read side.
C2_NoIOOnClosedDescriptor ==
    /\ \A t \in Threads :
          (InDeviceRead(t) \/ InDeviceWrite(t)) =>
              /\ fdOpen
              /\ bpfHandle = "bpf"
              /\ t \in bpfHandleLock.readers
    /\ ~fdOpen => bpfHandleLock.readers = {} /\ bpfHandle = "nil"

\* A Receive is inside its device read while a Close waits for the guard.
C2_Witness ==
    \E r, c \in Threads :
        /\ op[r] = "Receive" /\ InDeviceRead(r)
        /\ op[c] = "Close" /\ pc[c] = "close_wait"

\* C3: Close is idempotent: no Close call crashes, and the descriptor and the
\* controller are each released at most once.
C3_CloseIdempotent ==
    /\ \A t \in Threads : op[t] = "Close" => pc[t] # "panic"
    /\ bpfCloseCount <= 1
    /\ ifaceCloseCount <= 1

\* C4: a Send that starts after Close has returned never reaches the device
\* write and returns ErrClosed; a SetChannel that starts after Close has
\* returned is never delegated to the controller and returns ErrClosed.
C4_SendSetChannelAfterClose ==
    /\ \A t \in Threads :
          afterClose[t] =>
              /\ op[t] = "Send" => ~InDeviceWrite(t)
              /\ op[t] = "SetChannel" => pc[t] # "ch_call"
    /\ (last.afterClose /\ (Returned("Send") \/ Returned("SetChannel")))
          => last.ret = "ErrClosed"

\* After a Close has returned, a SetChannel has been called and has returned
\* ErrClosed, and a Send called after the Close is on its way to the guard.
C4_Witness ==
    /\ last.afterClose /\ Returned("SetChannel") /\ last.ret = "ErrClosed"
    /\ \E s \in Threads : op[s] = "Send" /\ afterClose[s] /\ pc[s] = "send_rlock"

\* C5: a Receive that starts after Close has returned returns ErrClosed,
\* whatever the packet list held when Close ran.
C5_ReceiveAfterClose ==
    (last.afterClose /\ Returned("Receive")) => last.ret = "ErrClosed"

\* C6: once some operation has returned ErrClosed, every Send, Receive or
\* SetChannel that starts afterwards returns ErrClosed.
C6_ClosedIsTerminal ==
    (last.afterErrClosed /\ last.op \in {"Send", "Receive", "SetChannel"})
        => last.ret = "ErrClosed"

ReceiveBlocked(r) == op[r] = "Receive" /\ pc[r] \in {"pop_rlock", "reading"}

\* A Close has been invoked and has not returned.
CloseInProgress == closeCalls > 0 /\ ~closeReturned

\* A Receive holds receiveLock from its entry into populateReadBuffer until
\* it returns: the lock is free again and the most recent return is that of
\* a Receive, with a result in R.
BlockedReceiveEnded(R) ==
    receiveLock = None /\ Returned("Receive") /\ last.ret \in R

\* A device read that delivered no record has crashed a Receive, and with it
\* the process.
ReadCrashed == \E u \in Threads : op[u] = "Receive" /\ pc[u] = "panic"

\* C7: when Close is invoked while a Receive is in the populateReadBuffer loop
\* on an empty list, then, unless a device read ends otherwise than in a
\* timeout (the Receive returns packets or an error, or a read of no records
\* crashes it), the Receive eventually returns ErrClosed and the Close
\* eventually returns.
C7_BlockedReceiveObservesClose ==
    /\ (CloseInProgress /\ \E r \in Threads : ReceiveBlocked(r)) ~>
          \/ BlockedReceiveEnded({"ErrClosed"})
          \/ BlockedReceiveEnded({"nil", "error"})
          \/ ReadCrashed
    /\ (CloseInProgress /\ \E r \in Threads : ReceiveBlocked(r)) ~>
          (closeReturned \/ ReadCrashed)

\* A Receive that has already looped past a timeout is inside a device read
\* while a Close waits for the guard.
C7_Witness ==
    \E r, c \in Threads :
        /\ op[r] = "Receive" /\ timedOut[r] /\ InDeviceRead(r)
        /\ op[c] = "Close" /\ pc[c] = "close_wait"

\* C8: Receive never returns the read timeout to its caller: a call in which
\* a device read timed out is still in the populateReadBuffer loop, and when
\* it returns it returns a packet, a non-timeout error or ErrClosed.
C8_TimeoutNotSurfaced ==
    /\ last.ret # "errBPFReadTimeout"
    /\ last.timedOut => last.ret \in {"nil", "error", "ErrClosed"}
    /\ \A t \in Threads : timedOut[t] => pc[t] \in {"pop_rlock", "reading", "panic"}

\* A Receive has returned a packet after one of its device reads timed out.
C8_Witness == last.timedOut /\ Returned("Receive") /\ last.ret = "nil"

\* C9 as stated: a Receive call returns to its caller at each timeout expiry,
\* so no call is in the populateReadBuffer loop with a timed-out device read
\* behind it.
C9_ReturnsAtEachTimeout ==
    \A t \in Threads : timedOut[t] => pc[t] \notin {"pop_rlock", "reading"}

\* C9 as amended: a timeout does not end the Receive call. After a timed-out
\* read the call is still in the populateReadBuffer loop with the receive lock
\* held; between two reads it does not hold the read side of the device guard
\* (so a waiting Close gets in), and it returns only with a packet, a
\* non-timeout error or ErrClosed.
C9_LoopsPastTimeouts ==
    /\ \A t \in Threads :
          timedOut[t] =>
              /\ op[t] = "Receive"
              /\ pc[t] \in {"pop_rlock", "reading", "panic"}
              /\ receiveLock = t
              /\ pc[t] = "pop_rlock" => t \notin bpfHandleLock.readers
    /\ last.timedOut =>
          Returned("Receive") /\ last.ret \in {"nil", "error", "ErrClosed"}

\* A Receive whose device read has timed out is inside another device read.
C9_Witness ==
    \E t \in Threads : timedOut[t] /\ op[t] = "Receive" /\ InDeviceRead(t)

\* ---------------------------------------------------------------- waiting
\* The lock domain of the operation a goroutine is in.
Domain(t) ==
    CASE op[t] \in ChannelOps -> "channel"
      [] op[t] = "Receive" -> "receive"
      [] op[t] = "Send" -> "send"
      [] op[t] = "Close" -> "close"
      [] OTHER -> "none"

\* The goroutines that t, stopped at a lock acquisition, is waiting for: the
\* holder of the mutex, the writer that holds or has requested the device
\* guard, or (for a writer) the readers still inside.
WaitsFor(t) ==
    CASE pc[t] \in {"ch_lock", "close_iflock"} -> {osxInterfaceLock} \ {None}
      [] pc[t] = "recv_lock" -> {receiveLock} \ {None}
      [] pc[t] = "send_lock" -> {sendLock} \ {None}
      [] pc[t] \in {"pop_rlock", "send_rlock", "close_lock"} ->
            {bpfHandleLock.writer} \ {None}
      [] pc[t] = "close_wait" -> bpfHandleLock.readers
      [] OTHER -> {}

RECURSIVE WaitChain(_, _)
\* The goroutines reached from the set S by following WaitsFor n times.
WaitChain(S, n) ==
    IF n = 0 THEN S
    ELSE WaitChain(S \cup UNION {WaitsFor(u) : u \in S}, n - 1)

\* Everybody whose progress t, directly or through others, is waiting for.
WaitsForTransitively(t) == WaitChain(WaitsFor(t), NumThreads)

OperationDomains == {"receive", "send", "channel"}

\* C10 as stated: a goroutine in one of the three operation domains never
\* has to wait, directly or through others, for an operation of another one.
C10_DomainsNeverWait ==
    \A t \in Threads : \A u \in WaitsForTransitively(t) :
        (Domain(t) \in OperationDomains /\ Domain(u) \in OperationDomains)
            => Domain(t) = Domain(u)

\* C10 as amended: no operation waits for a lock that an operation of another
\* domain holds, and channel operations are never part of a wait chain with
\* Send or Receive; a Send and a Receive wait for each other only in a chain
\* that passes through a Close waiting for the device guard.
C10_NoDirectCrossDomainWait ==
    \A t \in Threads :
        /\ \A u \in WaitsFor(t) :
              (Domain(t) \in OperationDomains /\ Domain(u) \in OperationDomains)
                  => Domain(t) = Domain(u)
        /\ \A u \in WaitsForTransitively(t) :
              /\ Domain(t) = "channel" => Domain(u) = "channel"
              /\ Domain(t) \in {"send", "receive"} => Domain(u) # "channel"
              /\ (Domain(t) \in {"send", "receive"} /\ Domain(u) \in {"send", "receive"}
                     /\ Domain(t) # Domain(u)) =>
                    \E c \in WaitsForTransitively(t) :
                        op[c] = "Close" /\ pc[c] = "close_wait"

\* A Send is inside its device write, and a channel operation inside the
\* controller, while a Receive is blocked inside its device read.
C10_Witness ==
    \E r, s, c \in Threads :
        /\ op[r] = "Receive" /\ InDeviceRead(r)
        /\ op[s] = "Send" /\ InDeviceWrite(s)
        /\ op[c] \in ChannelOps /\ pc[c] = "ch_call"

\* ----------------------------------------------------------- serialization
\* The goroutines inside Receive's critical section: the list access and
\* the populateReadBuffer loop with its device read.
InReceiveSection == {t \in Threads : pc[t] \in {"pop_rlock", "reading"}}

\* The goroutines inside Send's critical section: the guard, the nil check
\* and the device write.
InSendSection == {t \in Threads : pc[t] \in {"send_rlock", "writing"}}

\* The goroutines inside a controller call.
InChannelSection == {t \in Threads : pc[t] = "ch_call"}

\* C11: operations of one domain serialize: at most one goroutine is inside
\* Receive's critical section, at most one inside Send's, at most one inside
\* a controller call, and the one inside holds the domain's lock.
C11_SameDomainSerializes ==
    /\ Cardinality(InReceiveSection) <= 1
    /\ Cardinality(InSendSection) <= 1
    /\ Cardinality(InChannelSection) <= 1
    /\ \A t \in InReceiveSection : receiveLock = t
    /\ \A t \in InSendSection : sendLock = t
    /\ \A t \in InChannelSection : osxInterfaceLock = t

\* A Send is inside its device write while a second Send waits for the send
\* lock, and a Receive is inside its device read.
C11_Witness ==
    \E s, w, r \in Threads :
        /\ pc[s] = "writing"
        /\ pc[w] = "send_lock"
        /\ pc[r] = "reading"

\* -------------------------------------------------------------- FIFO order
\* The records of all batches read from the device so far, in read order:
\* the device numbers its records 1, 2, ... as it delivers them.
RecordsRead == [i \in 1..nextPacket |-> i]

\* C12: the packets Receive has returned, followed by those still in the
\* list, are the records read from the device, in read order: every packet is
\* returned once, in order, and none is lost.
C12_ReceiveIsFIFO == delivered \o readBuffer = RecordsRead

\* Two or more packets have been returned and the list is empty again.
C12_Witness == Len(delivered) >= 2 /\ readBuffer = <<>>

\* ------------------------------------------------------------ fatal errors
\* Goroutine t's device read ends in this step with a fatal error.
ReadFailsFatally(t) == pc[t] = "reading" /\ pc'[t] # "reading" /\ lastRead' = "error"

\* C13: when the device read inside Receive fails with a fatal error, the
\* Receive returns that error in the same step, the packet list is empty
\* before and after, nothing is delivered or consumed, the receive lock is
\* released and both resources of the handle stay open.
C13_FatalReadErrorPropagates ==
    [][\A t \in Threads :
          ReadFailsFatally(t) =>
              /\ pc'[t] = "idle"
              /\ last'.op = "Receive" /\ last'.ret = "error"
              /\ readBuffer = <<>> /\ readBuffer' = <<>>
              /\ UNCHANGED <<delivered, nextPacket, device>>
              /\ bpfHandle' = "bpf" /\ osxInterface' = "iface" /\ fdOpen'
              /\ receiveLock' = None]_vars

\* The most recent device read failed fatally and the most recent return is
\* the Receive that returned the error.
C13_Witness == lastRead = "error" /\ Returned("Receive") /\ last.ret = "error"

\* ================================================== claims about parsePackets
\* A well-formed capture record: the header says what the record holds, and
\* the payload is a captured frame (at least one byte) that the session's
\* data-link type decodes.
WellFormed(r) ==
    /\ r \in HonestRecords
    /\ Len(r.payload) > 0
    /\ parsePacket(r.payload).err = "nil"

\* The read buffer holds two well-formed records.
TwoWellFormed ==
    Len(records) = 2 /\ WellFormed(records[1]) /\ WellFormed(records[2])

NextOffset(k) == IF k < Len(taken) THEN taken[k + 1].at ELSE parseI

\* C15: for a record taken at offset i with header length hl and captured
\* length cl, the payload is bytes [i+hl, i+hl+cl) and the packet is decoded
\* from exactly these bytes; the next record starts at the smallest multiple
\* of 4 that is >= i+hl+cl, so a record with hl = 18 and cl = 10 at offset 0
\* is followed by a record at offset 28 whose payload, its header length
\* being 18 too, starts at byte 46.
C15_PayloadRangeAndAlignment ==
    /\ Len(taken) = Len(parseRes)
    /\ \A k \in 1..Len(taken) :
          LET i == taken[k].at
              hl == Uint16(parseData, i + 16)
              cl == Int32(parseData, i + 8)
              next == NextOffset(k)
          IN  /\ taken[k].from = i + hl
              /\ taken[k].to = i + hl + cl
              /\ parseRes[k] = parsePacket(Slice(parseData, i + hl, i + hl + cl)).packet
              /\ next % 4 = 0 /\ next >= i + hl + cl /\ next < i + hl + cl + 4
              /\ (i = 0 /\ hl = 18 /\ cl = 10) => next = 28
              /\ (i = 0 /\ hl = 18 /\ cl = 10 /\ k < Len(taken)
                       /\ Uint16(parseData, 28 + 16) = 18)
                    => taken[k + 1].from = 28 + 18

\* Two records were taken, and the first ended off a 4-byte boundary, so
\* that padding lies between them.
C15_Witness ==
    /\ Len(taken) = 2
    /\ taken[1].to % 4 # 0
    /\ taken[2].at > taken[1].to

\* C16: for every buffer and every combination of captured, original and
\* header length, parsePackets never reads outside the buffer (in Go: never
\* fails a bounds check): it takes no record whose captured or original
\* length is negative when read as a signed 32-bit number, or whose payload
\* range ends past the buffer; such a record yields ErrBufferUnderflow.
C16_ImplausibleLengthsRefused ==
    /\ parseErr # "panic"
    /\ \A k \in 1..Len(taken) :
          /\ Int32(parseData, taken[k].at + 8) >= 0
          /\ Int32(parseData, taken[k].at + 12) >= 0
          /\ taken[k].to <= Len(parseData)

\* ================================================ claims about the radiotap codec
\* C17: parseRadiotapPacket returns ErrBufferUnderflow and no packet for
\* every input of fewer than 8 bytes, for every input whose header length H
\* (little-endian 16-bit at bytes [2:4]) is less than 8, and for every input
\* shorter than H; and for no input does it index outside the input (in Go:
\* fail a bounds check).
C17_ShortInputIsBufferUnderflow ==
    Decoded =>
        /\ codecOut.err # "panic"
        /\ Len(codecIn) < 8 => codecOut = [packet |-> Nil, err |-> "ErrBufferUnderflow"]
        /\ (Len(codecIn) >= 8 /\ (Uint16(codecIn, 2) < 8 \/ Len(codecIn) < Uint16(codecIn, 2)))
              => codecOut = [packet |-> Nil, err |-> "ErrBufferUnderflow"]

\* parseRadiotapPacket has returned from an input of 8 bytes or more whose
\* header length is below 8.
C17_Witness ==
    /\ Decoded
    /\ Len(codecIn) >= 8
    /\ Uint16(codecIn, 2) < 8

\* The Flags field of a radiotap buffer, read from the layout: bit 1 of the
\* bitmap says that it is present; it is the first field after the bitmap
\* (one word, or two where bit 31 is set) unless the 8 bytes of TSFT (bit 0)
\* come before it. An absent Flags field counts as 0.
FlagsPresent(data) == WordBit(data, 4, radiotapFlags) = 1
FlagsOffset(data) ==
    (IF WordBit(data, 4, 31) = 1 THEN 12 ELSE 8) + (IF WordBit(data, 4, 0) = 1 THEN 8 ELSE 0)
FlagsField(data) == IF FlagsPresent(data) THEN At(data, FlagsOffset(data)) ELSE 0

\* The bytes of a radiotap buffer after its header.
AfterHeader(data) == Slice(data, Uint16(data, 2), Len(data))

\* CRC-32 (IEEE) of some byte strings, lowest byte first, as reference values.
KnownChecksum(bytes) ==
    CASE bytes = <<>> -> <<0, 0, 0, 0>>
      [] bytes = <<1>> -> <<27, 223, 5, 165>>
      [] bytes = <<1, 200>> -> <<60, 105, 125, 205>>
      [] OTHER -> PutUint32(ChecksumIEEE(bytes))

\* C18: where parseRadiotapPacket returns a packet and the Flags field has
\* the FCS bit set, the frame is exactly the bytes after the header; where
\* the bit is not set, or the bitmap has no Flags field, the frame is those
\* bytes followed by exactly 4 bytes, their CRC-32 in little-endian order.
C18_ChecksumSynthesis ==
    (Decoded /\ codecOut.err = "nil") =>
        LET rest == AfterHeader(codecIn)
            frame == codecOut.packet.Frame
        IN  IF HasFlag(FlagsField(codecIn), radiotapFlagHasFCS)
            THEN frame = rest
            ELSE /\ Len(frame) = Len(rest) + 4
                 /\ SubSeq(frame, 1, Len(rest)) = rest
                 /\ SubSeq(frame, Len(rest) + 1, Len(rest) + 4)
                        = PutUint32(ChecksumIEEE(rest))
                 /\ SubSeq(frame, Len(rest) + 1, Len(rest) + 4) = KnownChecksum(rest)

\* A buffer whose bitmap has no Flags field was decoded, and bytes follow
\* its header.
C18_Witness ==
    /\ Decoded
    /\ codecOut.err = "nil"
    /\ ~FlagsPresent(codecIn)
    /\ AfterHeader(codecIn) = <<1, 200>>

\* C19: for every frame f and data rate r, parseRadiotapPacket applied to
\* encodeRadiotapPacket(f, r) succeeds and returns a frame equal to f byte
\* for byte, with a RadioInfo whose frequency, noise power, signal power and
\* transmit power are all 0.
C19_EncodeDecodeRoundTrip ==
    codecStage = "roundtrip" =>
        /\ codecOut.err = "nil"
        /\ codecOut.packet.Frame = codecFrame
        /\ codecOut.packet.RadioInfo # Nil
        /\ codecOut.packet.RadioInfo.Frequency = 0
        /\ codecOut.packet.RadioInfo.NoisePower = 0
        /\ codecOut.packet.RadioInfo.SignalPower = 0
        /\ codecOut.packet.RadioInfo.TransmitPower = 0

\* A frame of two bytes was encoded with a data rate and decoded again.
C19_Witness ==
    /\ codecStage = "roundtrip"
    /\ codecFrame = <<1, 200>>
    /\ codecRate = 108
    /\ codecIn = <<0, 0, 10, 0, 6, 0, 0, 0, 16, 108, 1, 200>>

\* The buffer with the padding bit of its Flags field cleared.
WithoutPaddingFlag(data) ==
    [data EXCEPT ![FlagsOffset(data) + 1] = @ - radiotapFlagHasPadding]

\* The Flags field of the buffer has the padding bit set, and the buffer is
\* well-formed apart from that: with the bit cleared it decodes.
PaddedButWellFormed(data) ==
    /\ Len(data) >= 8
    /\ FlagsPresent(data)
    /\ FlagsOffset(data) < Len(data)
    /\ HasFlag(FlagsField(data), radiotapFlagHasPadding)
    /\ parseRadiotapPacket(WithoutPaddingFlag(data)).err = "nil"

\* C20: for every input that is well-formed but for the padding bit (0x20)
\* set in its Flags field, parseRadiotapPacket returns no packet and the
\* unsupported-format error, whether or not the FCS bit is set too.
C20_PaddingIsUnsupported ==
    (Decoded /\ PaddedButWellFormed(codecIn)) =>
        codecOut = [packet |-> Nil, err |-> "unsupported"]

\* A buffer with both the padding and the FCS bit set was decoded.
C20_Witness ==
    /\ Decoded
    /\ PaddedButWellFormed(codecIn)
    /\ HasFlag(FlagsField(codecIn), radiotapFlagHasFCS)

\* ================================================ claims about received packets
\* The payload of the k-th record parsePackets took.
PayloadOf(k) == Slice(parseData, taken[k].from, taken[k].to)

\* The capture supplied the checksum of the k-th record: radiotap mode, and
\* the FCS bit of the Flags field is set.
ChecksumSupplied(k) ==
    /\ dataLinkType = dltIEEE802_11_RADIO
    /\ HasFlag(FlagsField(PayloadOf(k)), radiotapFlagHasFCS)

\* C21: every frame decoded from a capture record that parsePackets accepts,
\* in either data-link mode, is checksum-complete: it has at least 4 bytes,
\* and its last 4 bytes are the checksum, taken from the capture where the
\* FCS flag is set and the CRC-32 of the bytes before them otherwise.
C21_FramesChecksumComplete ==
    \A k \in 1..Len(parseRes) :
        LET frame == parseRes[k].Frame
        IN  /\ Len(frame) >= 4
            /\ IF ChecksumSupplied(k)
               THEN frame = AfterHeader(PayloadOf(k))
               ELSE SubSeq(frame, Len(frame) - 3, Len(frame))
                        = PutUint32(ChecksumIEEE(SubSeq(frame, 1, Len(frame) - 4)))

\* C22: the RadioInfo of a received packet is nil exactly when the session's
\* data-link type is the bare-MAC one: there every packet has a nil RadioInfo
\* and a frame that is the record's payload followed by the payload's CRC-32
\* in 4 little-endian bytes; in radiotap mode every packet has a RadioInfo.
C22_RadioInfoNilIffBareMAC ==
    \A k \in 1..Len(parseRes) :
        LET frame == parseRes[k].Frame
            payload == PayloadOf(k)
        IN  IF dataLinkType = dltIEEE802_11
            THEN /\ parseRes[k].RadioInfo = Nil
                 /\ Len(frame) = Len(payload) + 4
                 /\ SubSeq(frame, 1, Len(payload)) = payload
                 /\ SubSeq(frame, Len(payload) + 1, Len(payload) + 4)
                        = PutUint32(ChecksumIEEE(payload))
                 /\ payload = <<7>> => frame = <<7, 46, 122, 102, 76>>
            ELSE parseRes[k].RadioInfo # Nil

\* Two packets were decoded in bare-MAC mode, the second from a payload of
\* one byte.
C22_Witness ==
    /\ dataLinkType = dltIEEE802_11
    /\ Len(parseRes) = 2
    /\ PayloadOf(2) = <<7>>

\* ================================================= claims about single calls
\* The call of bpfHandle.Send has returned after a write without OS error.
WriteReturned == bpfSendCall.stage = "returned" /\ bpfSendCall.err = "nil"

\* C23: bpfHandle.Send returns an error whenever the OS reports fewer bytes
\* written than were supplied to the write call, in both data-link modes; the
\* bytes supplied are the frame alone in bare-MAC mode, and the 10-byte
\* radiotap header followed by the frame in radiotap mode.
C23_ShortWriteIsAnError ==
    WriteReturned =>
        /\ IF dataLinkType = dltIEEE802_11_RADIO
           THEN /\ Len(bpfSendCall.sendData) = 10 + Len(bpfSendCall.frame)
                /\ SubSeq(bpfSendCall.sendData, 11, Len(bpfSendCall.sendData))
                       = bpfSendCall.frame
           ELSE bpfSendCall.sendData = bpfSendCall.frame
        /\ bpfSendCall.n < Len(bpfSendCall.sendData) => bpfSendCall.result # "nil"

\* The supported-channel list holds the number asked for, with some width.
NumberListed ==
    \E k \in 1..Len(setChannelCall.supported) :
        setChannelCall.supported[k].number = setChannelCall.arg.Number

\* SetChannel was called with an unspecified width, fetched the list, and
\* has returned.
UnspecifiedWidthReturned ==
    /\ setChannelCall.stage = "returned"
    /\ setChannelCall.arg.Width = ChannelWidthUnspecified
    /\ setChannelCall.result # "EIO" \/ setChannelCall.request # NoRequest

\* The set request names a channel of the list with the number asked for.
RequestFromList ==
    /\ setChannelCall.request.number = setChannelCall.arg.Number
    /\ \E k \in 1..Len(setChannelCall.supported) :
          setChannelCall.supported[k] = setChannelCall.request

\* C24: SetChannel with an unspecified width tunes to the number asked for
\* whenever the supported-channel list holds that number with any width,
\* with a width the list holds for it; it fails as unknown channel, and
\* issues no set request, only when the list does not hold the number.
C24_UnspecifiedWidthAutoSelects ==
    UnspecifiedWidthReturned =>
        /\ NumberListed => RequestFromList
        /\ setChannelCall.result = "unknown channel"
              => (~NumberListed /\ setChannelCall.request = NoRequest)

\* C25: NewChannelWidthMegahertz(20) is ChannelWidth20MHz,
\* NewChannelWidthMegahertz(40) is ChannelWidth40MHz, and every other integer
\* gives ChannelWidthUnspecified; Megahertz maps the three widths back
\* (20 MHz to 20, 40 MHz to 40, unspecified to 0), so that
\* NewChannelWidthMegahertz(w.Megahertz()) = w for each width w.
C25_WidthMegahertzRoundTrip ==
    /\ widthCall.stage = "made" =>
          widthCall.width = IF widthCall.mhz = 20 THEN ChannelWidth20MHz
                            ELSE IF widthCall.mhz = 40 THEN ChannelWidth40MHz
                            ELSE ChannelWidthUnspecified
    /\ widthCall.stage \in {"in megahertz", "roundtrip"} =>
          widthCall.mhz = IF widthCall.width = ChannelWidth20MHz THEN 20
                          ELSE IF widthCall.width = ChannelWidth40MHz THEN 40
                          ELSE 0
    /\ widthCall.stage = "roundtrip" => widthCall.back = widthCall.width

\* The 40 MHz width has gone to megahertz and back.
C25_Witness ==
    /\ widthCall.stage = "roundtrip"
    /\ widthCall.width = ChannelWidth40MHz
    /\ widthCall.mhz = 40

\* ============================================ claims about loops and waiting
\* Receive has dereferenced the head of an empty packet list.
PoppedEmpty(t) == pc[t] = "panic" /\ op[t] = "Receive"

\* C26: Receive never pops from an empty queue: whenever populateReadBuffer
\* returns without error the queue holds a packet, whatever the device read
\* and parsePackets returned without error, a read of 1 to 18 bytes, which
\* holds no record, included.
C26_RefillLeavesAPacket == \A t \in Threads : ~PoppedEmpty(t)

\* C27: parsePackets terminates on every buffer in both data-link modes:
\* each iteration of its loop that does not return an error leaves the record
\* offset strictly greater than it found it, whatever header length and
\* captured length the buffer holds, 0 and 0 included.
C27_OffsetStrictlyIncreases ==
    \A k \in 1..Len(taken) : NextOffset(k) > taken[k].at

\* The goroutine t holds the device guard, on its read or its write side.
HoldsGuard(t) == t \in bpfHandleLock.readers \/ (bpfHandleLock.writer = t /\ pc[t] # "close_wait")

\* Some goroutine is inside a call, and the process is alive.
CallsUnderWay == ~panicked /\ \E t \in Threads : pc[t] # "idle"

\* C28: with a single Close the handle is deadlock-free: in every
\* interleaving of Send, Receive, the channel operations and Close no
\* goroutine waits, through whatever chain of lock holders, for itself, and
\* while calls are under way some goroutine can take a step; the send and the
\* receive lock are taken before the device guard, and Close does not hold
\* the device guard when it goes for the controller lock.
C28_DeadlockFree ==
    /\ \A t \in Threads : t \notin WaitsForTransitively(t)
    /\ CallsUnderWay => \E t \in Threads : ENABLED Step(t)
    /\ \A t \in Threads :
          /\ (HoldsGuard(t) /\ op[t] = "Send") => sendLock = t
          /\ (HoldsGuard(t) /\ op[t] = "Receive") => receiveLock = t
          /\ pc[t] \in {"send_lock", "recv_lock", "close_iflock"} => ~HoldsGuard(t)

\* A Close waits for the device guard that a Receive holds inside its read,
\* while a Send waits behind the Close.
C28_Witness ==
    \E c, r, w \in Threads :
        /\ pc[c] = "close_wait" /\ pc[r] = "reading" /\ pc[w] = "send_rlock"
        /\ r \in WaitsFor(c)
        /\ c \in WaitsFor(w)

\* ============================================ claims about the radiotap fields
\* The field area of a radiotap buffer whose header size holds the bitmap:
\* bytes [8:H), or [12:H) where bit 31 of the bitmap announces a second word.
FieldAreaStart(data) == IF WordBit(data, 4, 31) = 1 THEN 12 ELSE 8
FieldArea(data) == Slice(data, FieldAreaStart(data), Uint16(data, 2))

\* The bitmap of the buffer has the bit of field i set.
FieldPresent(data, i) == WordBit(data, 4, i) = 1

\* n rounded up to the next multiple of a.
RoundUp(n, a) == ((n + a - 1) \div a) * a

RECURSIVE FieldOffset(_, _)
\* Where in the field area field i lies: behind the last present field of
\* lower index (at 0 if there is none), rounded up to the alignment of i.
FieldOffset(data, i) ==
    LET before == {j \in 0..(i - 1) : FieldPresent(data, j)}
        prev == CHOOSE j \in before : \A k \in before : k <= j
    IN  RoundUp(IF before = {} THEN 0
                ELSE FieldOffset(data, prev) + radiotapFields[prev + 1].Size,
                radiotapFields[i + 1].Alignment)

\* Every field of the table that the bitmap announces ends inside the field
\* area.
FieldsFit(data) ==
    \A i \in 0..(Len(radiotapFields) - 1) :
        FieldPresent(data, i)
            => FieldOffset(data, i) + radiotapFields[i + 1].Size <= Len(FieldArea(data))

\* The byte of field i, or 0 for a field the bitmap does not announce.
FieldByte(data, i) ==
    IF FieldPresent(data, i) THEN At(FieldArea(data), FieldOffset(data, i)) ELSE 0

\* parseRadiotapPacket has returned from a buffer whose header size lies
\* between the end of the bitmap and the end of the buffer.
WalkedFields ==
    /\ Decoded
    /\ Len(codecIn) >= 8
    /\ Uint16(codecIn, 2) >= FieldAreaStart(codecIn)
    /\ Uint16(codecIn, 2) <= Len(codecIn)

\* C29: the field area is bytes [8:H), or [12:H) with bit 31 of the bitmap
\* set; the fields 0..13 are visited in index order with the fixed table of
\* alignments and sizes; for each field whose bit is set the offset is
\* rounded up to the field's alignment, ErrBufferUnderflow is returned if
\* offset + size passes the end of the field area, and otherwise the field
\* is read at the offset, which then moves on by the size; absent fields take
\* no bytes and leave their RadioInfo value 0.
C29_FieldWalk ==
    WalkedFields =>
        IF ~FieldsFit(codecIn)
        THEN codecOut = [packet |-> Nil, err |-> "ErrBufferUnderflow"]
        ELSE /\ codecOut.err \in {"nil", "unsupported"}
             /\ codecOut.err = "unsupported"
                   <=> HasFlag(FieldByte(codecIn, radiotapFlags), radiotapFlagHasPadding)
             /\ codecOut.err = "nil" =>
                   LET info == codecOut.packet.RadioInfo
                       area == FieldArea(codecIn)
                   IN  /\ info.Rate = FieldByte(codecIn, radiotapRate)
                       /\ info.Frequency =
                             IF FieldPresent(codecIn, radiotapChannel)
                             THEN Uint16(area, FieldOffset(codecIn, radiotapChannel))
                             ELSE 0
                       /\ info.SignalPower = Int8(FieldByte(codecIn, radiotapSignalPower))
                       /\ info.NoisePower = Int8(FieldByte(codecIn, radiotapNoisePower))
                       /\ info.TransmitPower = Int8(FieldByte(codecIn, radiotapTransmitPower))
                       /\ HasFlag(FieldByte(codecIn, radiotapFlags), radiotapFlagHasFCS)
                             <=> codecOut.packet.Frame = AfterHeader(codecIn)

\* A buffer with Flags and Channel was decoded: the Channel field was read
\* at offset 2 of the field area, behind a byte that aligns it.
C29_Witness ==
    /\ WalkedFields
    /\ codecOut.err = "nil"
    /\ FieldPresent(codecIn, radiotapFlags)
    /\ ~FieldPresent(codecIn, radiotapRate)
    /\ FieldPresent(codecIn, radiotapChannel)
    /\ FieldArea(codecIn) = <<16, 9, 255, 255, 0, 0>>
    /\ codecOut.packet.RadioInfo.Frequency = 65535

\* The value the decoder reports for the one-byte field i, and the byte of
\* the field area it was read from.
PowerValue(i) ==
    LET info == codecOut.packet.RadioInfo
    IN  CASE i = radiotapSignalPower -> info.SignalPower
          [] i = radiotapNoisePower -> info.NoisePower
          [] i = radiotapTransmitPower -> info.TransmitPower

\* C30: the frequency is the first two bytes of field 3 as an unsigned
\* little-endian 16-bit integer, in 0..65535; signal, noise and transmit
\* power (fields 5, 6 and 10) are single bytes read as two's-complement
\* signed 8-bit integers: a byte b < 128 gives b, a byte b >= 128 gives
\* b - 256, in -128..127.
C30_ValueDecoding ==
    (WalkedFields /\ codecOut.err = "nil") =>
        LET area == FieldArea(codecIn)
            info == codecOut.packet.RadioInfo
        IN  /\ FieldPresent(codecIn, 3) =>
                  LET o == FieldOffset(codecIn, 3)
                  IN  /\ info.Frequency = area[o + 1] + 256 * area[o + 2]
                      /\ info.Frequency \in 0..65535
            /\ \A i \in {5, 6, 10} :
                  FieldPresent(codecIn, i) =>
                      LET b == area[FieldOffset(codecIn, i) + 1]
                      IN  /\ b < 128 => PowerValue(i) = b
                          /\ b >= 128 => PowerValue(i) = b - 256
                          /\ PowerValue(i) \in (-128)..127

\* A buffer with channel bytes 108, 9 and power bytes 200, 160 and 5 was
\* decoded to 2412 MHz, -56, -96 and 5.
C30_Witness ==
    /\ WalkedFields
    /\ codecOut.err = "nil"
    /\ \A i \in {3, 5, 6, 10} : FieldPresent(codecIn, i)
    /\ SubSeq(FieldArea(codecIn), 3, 9) = <<108, 9, 0, 0, 200, 160, 5>>
    /\ codecOut.packet.RadioInfo.Frequency = 2412
    /\ codecOut.packet.RadioInfo.SignalPower = -56
    /\ codecOut.packet.RadioInfo.NoisePower = -96
    /\ codecOut.packet.RadioInfo.TransmitPower = 5

\* ===================================== claims about failures inside a batch
\* The offset in the read buffer at which the k-th record was laid out.
RecordOffset(k) == Len(Layout(SubSeq(records, 1, k - 1)))

\* The k-th record of the read buffer lies where the headers of the records
\* before it say, and it has implausible lengths (a captured or original
\* length that is negative as a signed 32-bit number, or a payload range
\* that ends past the buffer), or a payload that the session's data-link
\* type does not decode.
FailingRecord(k) ==
    LET i == RecordOffset(k)
        hl == Uint16(parseData, i + 16)
        cl == Int32(parseData, i + 8)
        ol == Int32(parseData, i + 12)
    IN  /\ \A j \in 1..(k - 1) : records[j] \in HonestRecords
        /\ \/ cl < 0
           \/ ol < 0
           \/ cl > Len(parseData) - i - hl
           \/ parsePacket(Slice(parseData, i + hl, i + hl + cl)).err # "nil"

\* C31: if any record in a read buffer has implausible lengths or a payload
\* that fails to decode, parsePackets returns that error and no packets at
\* all, the records decoded earlier in the buffer included, and it does not
\* go on to later records.
C31_DecodeFailureSurfaced ==
    (ParseDone /\ \E k \in 1..Len(records) : FailingRecord(k)) =>
        /\ parseErr \notin {"nil", "panic"}
        /\ ParseResult = <<>>

\* Every record of the read buffer is one whose header says what it holds
\* and whose payload the session's data-link type decodes.
AllRecordsDecodable ==
    /\ records # <<>>
    /\ \A k \in 1..Len(records) :
          records[k] \in HonestRecords /\ ~FailingRecord(k)

\* C32: parsePackets stops walking exactly when fewer than 18 bytes remain
\* after the current offset: it returns its packets without error only with
\* fewer than 18 bytes left, every well-formed record with at least 18 bytes
\* at its start is parsed, and trailing padding of fewer than 18 bytes does
\* not keep the records found from being returned with a nil error.
C32_StopsBelowEighteenBytes ==
    /\ parseErr = "nil" => Len(parseData) - parseI < 18
    /\ (ParseDone /\ AllRecordsDecodable) =>
          /\ parseErr = "nil"
          /\ Len(ParseResult) = Len(records)
          /\ \A k \in 1..Len(records) : taken[k].at = RecordOffset(k)

\* ================================================= claims about NewHandle
\* newBpfHandle has made k unix.Open calls and is about to make another.
StillOpening == newHandleCall.stage = "open"

\* newBpfHandle has returned.
OpenEnded == newHandleCall.opened # <<>> /\ ~StillOpening

\* The paths were tried in order: "/dev/bpf", then "/dev/bpf0", "/dev/bpf1"
\* and so on.
PathsInOrder ==
    \A k \in 1..Len(newHandleCall.opened) :
        newHandleCall.opened[k].path = IF k = 1 THEN <<"/dev/bpf">> ELSE <<"/dev/bpf", k - 2>>

\* What newBpfHandle returned fits the last path it tried: the descriptor
\* of that path if it opened, the error naming that path if permission was
\* denied, the errno otherwise.
EndedByLastPath ==
    OpenEnded =>
        LET tried == newHandleCall.opened[Len(newHandleCall.opened)]
        IN  /\ tried.err = "nil" => newHandleCall.bpfPath = tried.path
            /\ tried.err = "EACCES" =>
                  /\ newHandleCall.stage = "returned"
                  /\ newHandleCall.result =
                        [err |-> "permissions denied for: ", path |-> tried.path]
                  /\ newHandleCall.bpfPath = <<>>
            /\ tried.err \notin {"nil", "EACCES"} =>
                  /\ newHandleCall.stage = "returned"
                  /\ newHandleCall.result = [err |-> tried.err, path |-> <<>>]
                  /\ newHandleCall.bpfPath = <<>>

\* The paths after which the search went on.
PassedPaths ==
    {k \in 1..Len(newHandleCall.opened) : k < Len(newHandleCall.opened) \/ StillOpening}

\* C33 as stated: newBpfHandle tries /dev/bpf and then /dev/bpf0, /dev/bpf1,
\* ... in order, returns the first path that opens and tries no later one; a
\* permission failure ends the search with an error naming the path; a busy
\* path makes it try the next; the search ends with an error as soon as a
\* path fails for any other reason.
C33_OpenSearch ==
    /\ PathsInOrder
    /\ EndedByLastPath
    /\ \A k \in PassedPaths : newHandleCall.opened[k].err = "EBUSY"

\* C33, amended: as stated for the numbered paths; a failure of /dev/bpf
\* itself for any reason but permission, busy or not, does not end the
\* search but leads on to /dev/bpf0. The search makes at most two calls more
\* than there are busy numbered paths, and it ends.
C33_OpenSearchAmended ==
    /\ [](/\ PathsInOrder
          /\ EndedByLastPath
          /\ \A k \in PassedPaths :
                IF k = 1 THEN newHandleCall.opened[k].err \notin {"nil", "EACCES"}
                ELSE newHandleCall.opened[k].err = "EBUSY"
          /\ (OpenEnded /\ Len(newHandleCall.opened) = 1)
                => newHandleCall.opened[1].err \in {"nil", "EACCES"}
          /\ Len(newHandleCall.opened)
                <= 2 + Cardinality({k \in 2..Len(newHandleCall.opened) :
                                       newHandleCall.opened[k].err = "EBUSY"}))
    /\ (StillOpening ~> OpenEnded)

\* /dev/bpf could not be opened for a reason other than permission, two
\* numbered paths were busy, and the third was opened.
C33_Witness ==
    /\ OpenEnded
    /\ Len(newHandleCall.opened) = 4
    /\ newHandleCall.opened[1].err = "ENOENT"
    /\ newHandleCall.opened[4].err = "nil"
    /\ newHandleCall.bpfPath = <<"/dev/bpf", 2>>

\* SetReasonableBufferSize has returned, with or without a size.
NegotiationEnded ==
    newHandleCall.sizes # <<>> /\ newHandleCall.stage # "buffer"

\* SetReasonableBufferSize has returned its error.
NegotiationFailed ==
    newHandleCall.result.err = "could not negotiate a buffer size"

\* C34: SetReasonableBufferSize tries the sizes 0x80000, 0x40000, ..., 1 in
\* that order and stops at the first one the OS accepts, after which the
\* scratch read buffer has exactly that size; it returns an error only if
\* every size down to 1 was refused, and it makes at most 20 attempts.
C34_BufferSizeNegotiation ==
    LET sizes == newHandleCall.sizes
    IN  /\ Len(sizes) <= 20
        /\ \A k \in 1..Len(sizes) : sizes[k] = 524288 \div (2 ^ (k - 1))
        /\ ~NegotiationEnded => newHandleCall.readBuffer = 0
        /\ (NegotiationEnded /\ ~NegotiationFailed) =>
              newHandleCall.readBuffer = sizes[Len(sizes)]
        /\ NegotiationFailed =>
              /\ Len(sizes) = 20
              /\ sizes[20] = 1
              /\ newHandleCall.readBuffer = 0

\* The sizes from 0x80000 down to 2 were refused and size 1 was accepted:
\* the read buffer has one byte, and the later steps have run.
C34_Witness ==
    /\ HandleReturned
    /\ Len(newHandleCall.sizes) = 20
    /\ newHandleCall.readBuffer = 1

\* SetupDataLink has returned nil: the last type it asked for was accepted.
DataLinkAccepted ==
    /\ newHandleCall.requested # <<>>
    /\ newHandleCall.stage # "datalink"
    /\ newHandleCall.result.err # "could not use an 802.11 data-link type"

\* The type the device accepted.
AcceptedType == newHandleCall.requested[Len(newHandleCall.requested)]

\* C35: SetupDataLink asks for the radiotap type first and for the bare type
\* only if the first is refused, and fails only if both are refused; after
\* it has succeeded the recorded type is the accepted one and stays so, and
\* every decode and every write of the session takes the path of that type
\* (radiotap decode or bare frame with checksum; radiotap-wrapped or raw).
C35_DataLinkTypeFixed ==
    /\ newHandleCall.requested \in
          {<<>>, <<dltIEEE802_11_RADIO>>, <<dltIEEE802_11_RADIO, dltIEEE802_11>>}
    /\ newHandleCall.result.err = "could not use an 802.11 data-link type"
          => (Len(newHandleCall.requested) = 2 /\ dataLinkType = 0)
    /\ ~DataLinkAccepted => dataLinkType = 0
    /\ DataLinkAccepted => dataLinkType = AcceptedType
    /\ newHandleCall.session.op = "decode" =>
          /\ DataLinkAccepted
          /\ newHandleCall.session.out =
                IF AcceptedType = dltIEEE802_11_RADIO
                THEN parseRadiotapPacket(newHandleCall.session.data)
                ELSE [packet |-> [Frame |-> WithChecksum(newHandleCall.session.data),
                                  RadioInfo |-> Nil],
                      err |-> "nil"]
    /\ newHandleCall.session.op = "send" =>
          /\ DataLinkAccepted
          /\ IF AcceptedType = dltIEEE802_11_RADIO
             THEN \E r \in DataRates :
                     newHandleCall.session.out
                         = encodeRadiotapPacket(newHandleCall.session.data, r)
             ELSE newHandleCall.session.out = newHandleCall.session.data

\* The radiotap type was refused and the bare type accepted; NewHandle
\* returned a handle, and a frame of one byte was sent as it is.
C35_Witness ==
    /\ HandleReturned
    /\ newHandleCall.requested = <<dltIEEE802_11_RADIO, dltIEEE802_11>>
    /\ dataLinkType = dltIEEE802_11
    /\ newHandleCall.session.op = "send"
    /\ newHandleCall.session.out = <<200>>

\* NewHandle has returned an error.
NewHandleFailed ==
    newHandleCall.stage = "returned" /\ newHandleCall.result # NoError

\* The configuration steps after the buffer size, in the order of
\* setupBpfHandle.
StepOrder ==
    <<"interface", "datalink", "promiscuous", "immediate", "hdrcmplt", "timeout">>

\* C37: when NewHandle returns an error, whichever step failed (the
\* controller socket and its capability probe, the open of the capture
\* device, or one of the seven configuration steps, which run in the order
\* buffer size, interface, data-link type, promiscuous, immediate, header
\* complete, read timeout and stop at the first failure), neither the
\* capture descriptor nor the controller socket is left open.
C37_FailureLeavesNothingOpen ==
    /\ newHandleCall.steps = SubSeq(StepOrder, 1, Len(newHandleCall.steps))
    /\ newHandleCall.steps # <<>> => newHandleCall.readBuffer > 0
    /\ NewHandleFailed =>
          /\ newHandleCall.bpfFd # "open"
          /\ newHandleCall.ifaceFd # "open"

\* ================================================ claims about ReceiveMany
\* The raw read ReceiveMany made last.
LastRead == receiveManyCall.reads[Len(receiveManyCall.reads)]

\* C36: ReceiveMany sorts each raw read result: after an interrupted call it
\* reads again without returning; a device-down result returns the error of
\* its own, "device is down"; a timeout signal or a read of no bytes returns
\* errBPFReadTimeout at once, with no further read; any other OS error is
\* returned as it is; only a successful read of at least one byte is handed
\* to parsePackets.
C36_ReadResultsSorted ==
    LET reads == receiveManyCall.reads
    IN  /\ \A k \in 1..(Len(reads) - 1) : reads[k].err = "EINTR"
        /\ (reads # <<>> /\ LastRead.err = "EINTR") => receiveManyCall.stage = "reading"
        /\ receiveManyCall.stage = "returned" =>
              /\ LastRead.err = "ENXIO" <=> receiveManyCall.result = "device is down"
              /\ (LastRead.err = "ETIMEDOUT" \/ LastRead.amount = 0)
                    <=> receiveManyCall.result = "errBPFReadTimeout"
              /\ LastRead.err \notin {"nil", "ENXIO", "ETIMEDOUT"}
                    => receiveManyCall.result = LastRead.err
              /\ parseErr = "unused"
        /\ parseErr # "unused" <=> receiveManyCall.stage = "parsePackets"
        /\ receiveManyCall.stage = "parsePackets" =>
              /\ LastRead.err = "nil"
              /\ LastRead.amount > 0
              /\ Len(parseData) = LastRead.amount
              /\ parseData \in ReadBuffers(records)

\* Two reads were interrupted, the third returned no bytes, and ReceiveMany
\* returned errBPFReadTimeout.
C36_Witness ==
    /\ receiveManyCall.stage = "returned"
    /\ Len(receiveManyCall.reads) = 3
    /\ receiveManyCall.reads[1].err = "EINTR"
    /\ LastRead = [amount |-> 0, err |-> "nil"]
    /\ receiveManyCall.result = "errBPFReadTimeout"

====
